---- MODULE Spec2Model ----
(***************************************************************************)
(* Decoder / dispatcher core of ib_insync: the field cursor, the message   *)
(* decoders (price/size tick, tick size and next valid id as operators;    *)
(* the decoders with version gates or repeated groups as statement         *)
(* tables), the message registry, the MessageDispatcher and the            *)
(* ContractAdapter.                                                        *)
(*                                                                         *)
(* Representation:                                                         *)
(*  - a token is a TLA+ string, a token record a sequence of tokens;       *)
(*  - Python None is the string "None" where a class or handler name is    *)
(*    expected and the record NoMessage where a message is expected;       *)
(*  - a Python float is the integer number of hundredths (2500.5 is        *)
(*    250050); the token vocabulary has at most two fractional digits;     *)
(*  - a raised exception is an outcome value, never a missing transition.  *)
(***************************************************************************)
EXTENDS Integers, Sequences, FiniteSets, TLC

VARIABLES
    message_classes,  \* MessageRegistry._message_classes : msg_id -> class name
    handlers,         \* MessageRegistry._handlers        : class name -> handler name
    MESSAGE_ID,       \* the MESSAGE_ID class attribute of every message class
    wrapper,          \* the consumer object: the set of method names it has
    server_version,   \* MessageDispatcher.server_version
    stats,            \* MessageDispatcher.stats
    message_counts,   \* MessageDispatcher.message_counts : msg_id -> count
    pre_processors,   \* MessageDispatcher.pre_processors  (sequence of callables)
    post_processors,  \* MessageDispatcher.post_processors (sequence of callables)
    op,               \* the last operation on the dispatcher and what it did
    ncalls,           \* number of dispatch calls made so far (bounds the model)
    bag,              \* ContractAdapter.parse: the attribute bag passed in
    resolved,         \* ContractAdapter.parse: what the call produced
    lookup,           \* the last get_message_class / get_handler call and its result
    cur,              \* a FieldIterator object: fields, index, length
    call,             \* the last call made on cur and what it returned
    rec,              \* from_fields: the class, the token record and the server version
    out,              \* from_fields: what the call did
    twin,             \* the statistics of a second dispatcher, built when the first was
                      \* last reset and given the same dispatch calls since
    threads           \* the threads that call dispatch on the one dispatcher

vars == <<message_classes, handlers, MESSAGE_ID, wrapper, server_version, stats,
          message_counts, pre_processors, post_processors, op, ncalls, bag, resolved,
          lookup, cur, call, rec, out, twin, threads>>

dispatcherVars == <<message_classes, handlers, MESSAGE_ID, wrapper, server_version,
                    stats, message_counts, pre_processors, post_processors, op, ncalls,
                    lookup, twin>>

contractVars == <<bag, resolved>>

cursorVars == <<cur, call>>

decodeVars == <<rec, out>>

threadVars == <<threads>>

\* what the operations of the dispatcher and of the registry leave alone
restVars == <<contractVars, lookup, cursorVars, decodeVars, threadVars>>

(***************************************************************************)
(* Bounds of the model.                                                    *)
(***************************************************************************)
MaxDispatch == 2      \* dispatch calls in one behaviour
MaxProcessors == 1    \* installed pre-processors, and installed post-processors
MaxCalls == 3         \* calls on one FieldIterator after its construction
MaxThreadDispatch == 1  \* dispatch calls of one thread

None == "None"

(***************************************************************************)
(* Python's int() and float() on a token.                                  *)
(***************************************************************************)
Digits == {"0", "1", "2", "3", "4", "5", "6", "7", "8", "9"}

Char(s, i) == SubSeq(s, i, i)

DigitVal(c) ==
    CASE c = "0" -> 0 [] c = "1" -> 1 [] c = "2" -> 2 [] c = "3" -> 3 [] c = "4" -> 4
      [] c = "5" -> 5 [] c = "6" -> 6 [] c = "7" -> 7 [] c = "8" -> 8 [] c = "9" -> 9

\* s[from..to] consists of digits only (true of the empty range)
AllDigits(s, from, to) == \A i \in from..to : Char(s, i) \in Digits

RECURSIVE DigitsValue(_, _, _, _)
DigitsValue(s, from, to, acc) ==
    IF from > to THEN acc
    ELSE DigitsValue(s, from + 1, to, acc * 10 + DigitVal(Char(s, from)))

HasSign(s) == Len(s) > 0 /\ Char(s, 1) \in {"-", "+"}

SignOf(s) == IF Len(s) > 0 /\ Char(s, 1) = "-" THEN -1 ELSE 1

FirstDigit(s) == IF HasSign(s) THEN 2 ELSE 1

\* int(s) succeeds: an optional sign followed by one or more digits
IsInt(s) == /\ FirstDigit(s) <= Len(s)
            /\ AllDigits(s, FirstDigit(s), Len(s))

IntOf(s) == SignOf(s) * DigitsValue(s, FirstDigit(s), Len(s), 0)

\* position of the first "." of s, Len(s) + 1 when there is none
DotPos(s) ==
    IF \E i \in 1..Len(s) : Char(s, i) = "."
    THEN CHOOSE i \in 1..Len(s) :
            Char(s, i) = "." /\ \A j \in 1..(i - 1) : Char(s, j) # "."
    ELSE Len(s) + 1

\* float(s) succeeds: optional sign, digits with at most one ".", one digit at least
IsFloat(s) ==
    /\ AllDigits(s, FirstDigit(s), DotPos(s) - 1)
    /\ AllDigits(s, DotPos(s) + 1, Len(s))
    /\ \E i \in FirstDigit(s)..Len(s) : Char(s, i) \in Digits

\* float(s) in hundredths
FloatOf(s) ==
    LET d == DotPos(s)
        whole == DigitsValue(s, FirstDigit(s), d - 1, 0)
        tenths == IF d + 1 <= Len(s) THEN DigitVal(Char(s, d + 1)) ELSE 0
        hundredths == IF d + 2 <= Len(s) THEN DigitVal(Char(s, d + 2)) ELSE 0
    IN SignOf(s) * (whole * 100 + tenths * 10 + hundredths)

Min(a, b) == IF a < b THEN a ELSE b

UpperCase == <<"A", "B", "C", "D", "E", "F", "G", "H", "I", "J", "K", "L", "M",
               "N", "O", "P", "Q", "R", "S", "T", "U", "V", "W", "X", "Y", "Z">>

LowerCase == <<"a", "b", "c", "d", "e", "f", "g", "h", "i", "j", "k", "l", "m",
               "n", "o", "p", "q", "r", "s", "t", "u", "v", "w", "x", "y", "z">>

\* str.lower() of one character
Lower(c) ==
    IF \E i \in 1..26 : UpperCase[i] = c
    THEN LowerCase[CHOOSE i \in 1..26 : UpperCase[i] = c]
    ELSE c

(***************************************************************************)
(* Python list indexing and slicing.  fields[i] counts from the end for a  *)
(* negative i and raises IndexError outside -len..len-1; fields[i:] clamps *)
(* i to the list.                                                          *)
(***************************************************************************)
IndexInRange(fields, i) == -Len(fields) <= i /\ i < Len(fields)

ListGet(fields, i) == IF i >= 0 THEN fields[i + 1] ELSE fields[Len(fields) + i + 1]

SliceStart(fields, i) ==
    IF i >= 0 THEN Min(i, Len(fields))
    ELSE IF Len(fields) + i > 0 THEN Len(fields) + i ELSE 0

SliceFrom(fields, i) == SubSeq(fields, SliceStart(fields, i) + 1, Len(fields))

\* str.lower()
RECURSIVE LowerString(_)
LowerString(s) ==
    IF Len(s) = 0 THEN s
    ELSE Lower(Char(s, 1)) \o LowerString(SubSeq(s, 2, Len(s)))

(***************************************************************************)
(* FieldIterator.  An accessor that returns a value and moves the cursor   *)
(* yields [value, it, raised]: the value returned, the cursor after the    *)
(* call and whether the call raised (IndexError of the list) instead of    *)
(* returning.                                                              *)
(***************************************************************************)
FieldIterator(fields, start_index) ==
    [fields |-> fields, index |-> start_index, length |-> Len(fields)]

\* a next() that moves the cursor also when it is exhausted
next_always_advances(it, default) ==
    IF it.index < it.length /\ IndexInRange(it.fields, it.index)
    THEN [value |-> ListGet(it.fields, it.index),
          it |-> [it EXCEPT !.index = it.index + 1], raised |-> FALSE]
    ELSE [value |-> default, it |-> [it EXCEPT !.index = it.index + 1], raised |-> FALSE]

next(it, default) ==
    IF it.index < it.length
    THEN IF IndexInRange(it.fields, it.index)
         THEN [value |-> ListGet(it.fields, it.index),
               it |-> [it EXCEPT !.index = it.index + 1], raised |-> FALSE]
         ELSE [value |-> default, it |-> it, raised |-> TRUE]
    ELSE [value |-> default, it |-> it, raised |-> FALSE]

next_int(it, default) ==
    LET r == next(it, "")
    IN  IF r.raised THEN [value |-> default, it |-> r.it, raised |-> TRUE]
        ELSE IF r.value = "" THEN [value |-> default, it |-> r.it, raised |-> FALSE]
        ELSE IF IsInt(r.value) THEN [value |-> IntOf(r.value), it |-> r.it, raised |-> FALSE]
        ELSE [value |-> default, it |-> r.it, raised |-> FALSE]

next_float(it, default) ==
    LET r == next(it, "")
    IN  IF r.raised THEN [value |-> default, it |-> r.it, raised |-> TRUE]
        ELSE IF r.value = "" THEN [value |-> default, it |-> r.it, raised |-> FALSE]
        ELSE IF IsFloat(r.value) THEN [value |-> FloatOf(r.value), it |-> r.it, raised |-> FALSE]
        ELSE [value |-> default, it |-> r.it, raised |-> FALSE]

next_bool(it, default) ==
    LET r == next(it, "")
    IN  IF r.raised THEN [value |-> default, it |-> r.it, raised |-> TRUE]
        ELSE IF r.value = "" THEN [value |-> default, it |-> r.it, raised |-> FALSE]
        ELSE [value |-> (r.value = "1" \/ LowerString(r.value) = "true"),
              it |-> r.it, raised |-> FALSE]

\* peek yields [found, value, raised]: found is FALSE when peek returns None
peek(it, offset) ==
    LET index == it.index + offset
    IN  IF index < it.length
        THEN IF IndexInRange(it.fields, index)
             THEN [found |-> TRUE, value |-> ListGet(it.fields, index), raised |-> FALSE]
             ELSE [found |-> FALSE, value |-> "", raised |-> TRUE]
        ELSE [found |-> FALSE, value |-> "", raised |-> FALSE]

skip(it, count) == [it EXCEPT !.index = Min(it.index + count, it.length)]

has_more(it) == it.index < it.length

remaining(it) == IF it.length - it.index > 0 THEN it.length - it.index ELSE 0

\* a consume_rest() that returns the rest and leaves the cursor where it was
consume_rest_no_move(it) == [value |-> SliceFrom(it.fields, it.index), it |-> it]

consume_rest(it) ==
    [value |-> SliceFrom(it.fields, it.index), it |-> [it EXCEPT !.index = it.length]]

(***************************************************************************)
(* Message decoders.  A decoder yields [kind, message]: kind "message"     *)
(* with the record built, "none" for the suppressed result (from_fields    *)
(* returned None) or "raise" for an exception.                             *)
(***************************************************************************)
NoMessage == [cls |-> None]

Decoded(m) == [kind |-> "message", message |-> m]
Suppressed == [kind |-> "none", message |-> NoMessage]
DecodeError == [kind |-> "raise", message |-> NoMessage]

\* a decoder that takes no price token for empty
PriceIsEmpty_never(price) == FALSE

\* "if not price": the price token is empty
PriceIsEmpty(price) == price = ""

PriceSizeTickMessage_from_fields(fields, sv) ==
    LET it0 == skip(FieldIterator(fields, 0), 2)
        req_id == next_int(it0, 0)
        tick_type == next_int(req_id.it, 0)
        price == next(tick_type.it, "")
        size == next(price.it, "")
    IN  IF PriceIsEmpty(price.value) THEN Suppressed
        ELSE IF ~IsFloat(price.value) THEN DecodeError
        ELSE IF size.value # "" /\ ~IsFloat(size.value) THEN DecodeError
        ELSE Decoded([cls |-> "PriceSizeTickMessage",
                      req_id |-> req_id.value,
                      tick_type |-> tick_type.value,
                      price |-> FloatOf(price.value),
                      size |-> IF size.value # "" THEN FloatOf(size.value) ELSE 0])

TickSizeMessage_from_fields(fields, sv) ==
    LET it0 == skip(FieldIterator(fields, 0), 1)
        req_id == next_int(it0, 0)
        tick_type == next_int(req_id.it, 0)
        size == next_float(tick_type.it, 0)
    IN  Decoded([cls |-> "TickSizeMessage",
                 req_id |-> req_id.value,
                 tick_type |-> tick_type.value,
                 size |-> size.value])

NextValidIdMessage_from_fields(fields, sv) ==
    LET it0 == skip(FieldIterator(fields, 0), 1)
        order_id == next_int(it0, 0)
    IN  Decoded([cls |-> "NextValidIdMessage", order_id |-> order_id.value])

Classes == {"PriceSizeTickMessage", "TickSizeMessage", "NextValidIdMessage"}

from_fields(cls, fields, sv) ==
    CASE cls = "PriceSizeTickMessage" -> PriceSizeTickMessage_from_fields(fields, sv)
      [] cls = "TickSizeMessage" -> TickSizeMessage_from_fields(fields, sv)
      [] cls = "NextValidIdMessage" -> NextValidIdMessage_from_fields(fields, sv)

(***************************************************************************)
(* IBMessage.to_fields, the encoder every message class inherits.          *)
(***************************************************************************)
DigitChar(d) ==
    CASE d = 0 -> "0" [] d = 1 -> "1" [] d = 2 -> "2" [] d = 3 -> "3" [] d = 4 -> "4"
      [] d = 5 -> "5" [] d = 6 -> "6" [] d = 7 -> "7" [] d = 8 -> "8" [] d = 9 -> "9"

RECURSIVE NatStr(_)
NatStr(n) == IF n < 10 THEN DigitChar(n) ELSE NatStr(n \div 10) \o DigitChar(n % 10)

\* str(n) of an int
IntStr(n) == IF n < 0 THEN "-" \o NatStr(-n) ELSE NatStr(n)

\* str(x) of a float given in hundredths: the shortest decimal, one digit after
\* the point at least
FloatStr(v) ==
    LET a == IF v < 0 THEN -v ELSE v
        frac == a % 100
    IN  (IF v < 0 THEN "-" ELSE "") \o NatStr(a \div 100) \o "." \o
        (IF frac % 10 = 0 THEN DigitChar(frac \div 10)
         ELSE DigitChar(frac \div 10) \o DigitChar(frac % 10))

\* the declared fields of each message class, in the order of the class body
model_fields(cls) ==
    CASE cls = "PriceSizeTickMessage" -> <<"req_id", "tick_type", "price", "size">>
      [] cls = "TickSizeMessage" -> <<"req_id", "tick_type", "size">>
      [] cls = "NextValidIdMessage" -> <<"order_id">>

FloatFields == {"price", "size"}

\* lines 63-72: the token of one field value.  The fields of the three classes
\* hold an int or a float after from_fields (price is never None, no field is a
\* bool), so the token is str(field_value).
FieldToken(field_name, field_value) ==
    IF field_name \in FloatFields THEN FloatStr(field_value) ELSE IntStr(field_value)

\* IBMessage.to_fields(self): the tag, then one token per declared field
to_fields(msg) ==
    <<IntStr(MESSAGE_ID[msg.cls])>> \o
    [i \in 1..Len(model_fields(msg.cls)) |->
        FieldToken(model_fields(msg.cls)[i], msg[model_fields(msg.cls)[i]])]

(***************************************************************************)
(* Python values passed to the consumer object, tagged by their type.      *)
(***************************************************************************)
PyInt(v) == [int |-> v]
PyFloat(v) == [float |-> v]
PyStr(v) == [str |-> v]
PyBool(v) == [bool |-> v]
PyList(l) == [list |-> l]
PyNone == [none |-> TRUE]
PyObj(m) == [object |-> m]
PyDict(key, v) == [dict |-> <<key, v>>]

Call(method, args) == [method |-> method, args |-> args]

(***************************************************************************)
(* dict.get(key) with None for a missing key, and dict[key] = value.        *)
(***************************************************************************)
EmptyDict == << >>

DictGet(d, key, default) == IF key \in DOMAIN d THEN d[key] ELSE default

DictSet(d, key, value) == (key :> value) @@ d

(***************************************************************************)
(* MessageRegistry.                                                        *)
(***************************************************************************)
get_message_class(msg_id) == DictGet(message_classes, msg_id, None)

get_handler(message_cls) == DictGet(handlers, message_cls, None)

\* a call of get_message_class or get_handler by a user of the registry
NoLookup == [name |-> "none", key |-> PyNone, found |-> None]

\* a get_message_class that files a default entry for a missing key
call_get_message_class_setdefault(msg_id) ==
    /\ lookup' = [name |-> "get_message_class", key |-> PyInt(msg_id),
                  found |-> get_message_class(msg_id)]
    /\ message_classes' = IF msg_id \in DOMAIN message_classes THEN message_classes
                          ELSE DictSet(message_classes, msg_id, None)
    /\ UNCHANGED <<handlers, MESSAGE_ID, wrapper, server_version, stats,
                   message_counts, pre_processors, post_processors, op, ncalls,
                   twin, contractVars, cursorVars, decodeVars, threadVars>>

call_get_message_class(msg_id) ==
    /\ lookup' = [name |-> "get_message_class", key |-> PyInt(msg_id),
                  found |-> get_message_class(msg_id)]
    /\ UNCHANGED <<message_classes, handlers, MESSAGE_ID, wrapper, server_version, stats,
                   message_counts, pre_processors, post_processors, op, ncalls,
                   twin, contractVars, cursorVars, decodeVars, threadVars>>

call_get_handler(message_cls) ==
    /\ lookup' = [name |-> "get_handler", key |-> PyStr(message_cls),
                  found |-> get_handler(message_cls)]
    /\ UNCHANGED <<message_classes, handlers, MESSAGE_ID, wrapper, server_version, stats,
                   message_counts, pre_processors, post_processors, op, ncalls,
                   twin, contractVars, cursorVars, decodeVars, threadVars>>

\* the MESSAGE_ID: ClassVar of each class body, before any decorator ran
DeclaredMessageId ==
    [c \in Classes |-> CASE c = "PriceSizeTickMessage" -> 1
                         [] c = "TickSizeMessage" -> 2
                         [] c = "NextValidIdMessage" -> 9]

\* @registry.register_message(msg_id) applied to class cls
register_message(msg_id, cls) ==
    /\ MESSAGE_ID' = [MESSAGE_ID EXCEPT ![cls] = msg_id]
    /\ message_classes' = DictSet(message_classes, msg_id, cls)
    /\ UNCHANGED <<handlers, wrapper, server_version, stats, message_counts,
                   pre_processors, post_processors, op, ncalls, twin, restVars>>

\* @registry.register_handler(message_cls) applied to function func
register_handler(message_cls, func) ==
    /\ handlers' = DictSet(handlers, message_cls, func)
    /\ UNCHANGED <<message_classes, MESSAGE_ID, wrapper, server_version, stats,
                   message_counts, pre_processors, post_processors, op, ncalls,
                   twin, restVars>>

(***************************************************************************)
(* Handler functions.  A handler yields the calls it made on the consumer  *)
(* object and whether it raised.  Calling a method the consumer does not   *)
(* have raises AttributeError; a method that exists returns or raises as   *)
(* the consumer decides (method_raises).                                   *)
(***************************************************************************)
WrapperCall(w, method, args, method_raises) ==
    IF method \in w
    THEN [calls |-> <<Call(method, args)>>, raised |-> method_raises]
    ELSE [calls |-> << >>, raised |-> TRUE]

handle_price_size_tick(w, msg, method_raises) ==
    IF "price" \in DOMAIN msg
    THEN IF "priceSizeTick" \in w
         THEN WrapperCall(w, "priceSizeTick",
                          <<PyInt(msg.req_id), PyInt(msg.tick_type),
                            PyFloat(msg.price), PyFloat(msg.size)>>, method_raises)
         ELSE WrapperCall(w, "tickPrice",
                          <<PyInt(msg.req_id), PyInt(msg.tick_type),
                            PyFloat(msg.price), PyDict("size", PyFloat(msg.size))>>,
                          method_raises)
    ELSE [calls |-> << >>, raised |-> FALSE]

handle_tick_size(w, msg, method_raises) ==
    WrapperCall(w, "tickSize",
                <<PyInt(msg.req_id), PyInt(msg.tick_type), PyFloat(msg.size)>>,
                method_raises)

handle_next_valid_id(w, msg, method_raises) ==
    WrapperCall(w, "nextValidId", <<PyInt(msg.order_id)>>, method_raises)

\* a handler function supplied by the user of the registry: it makes no call on
\* the consumer object and returns or raises
user_handler(w, msg, method_raises) == [calls |-> << >>, raised |-> method_raises]

HandlerFns == {"handle_price_size_tick", "handle_tick_size", "handle_next_valid_id",
               "user_handler"}

CallHandler(func, w, msg, method_raises) ==
    CASE func = "handle_price_size_tick" -> handle_price_size_tick(w, msg, method_raises)
      [] func = "handle_tick_size" -> handle_tick_size(w, msg, method_raises)
      [] func = "handle_next_valid_id" -> handle_next_valid_id(w, msg, method_raises)
      [] func = "user_handler" -> user_handler(w, msg, method_raises)

(***************************************************************************)
(* MessageDispatcher._call_wrapper_method / _call_wrapper_with_message.    *)
(***************************************************************************)
EndsWith(s, suffix) ==
    /\ Len(s) >= Len(suffix)
    /\ SubSeq(s, Len(s) - Len(suffix) + 1, Len(s)) = suffix

WrapperMethodName(message_name) ==
    LET method_name == Lower(Char(message_name, 1)) \o SubSeq(message_name, 2, Len(message_name))
    IN  IF EndsWith(method_name, "Message")
        THEN SubSeq(method_name, 1, Len(method_name) - 7)
        ELSE method_name

call_wrapper_with_message(w, method, msg, method_raises) ==
    IF "req_id" \in DOMAIN msg
    THEN WrapperCall(w, method, <<PyInt(msg.req_id), PyObj(msg)>>, method_raises)
    ELSE WrapperCall(w, method, <<PyObj(msg)>>, method_raises)

\* the exception of the method is caught and logged: the result never raises
call_wrapper_method(w, message_name, msg, method_raises) ==
    LET method_name == WrapperMethodName(message_name)
    IN  IF method_name \in w
        THEN [calls |-> call_wrapper_with_message(w, method_name, msg, method_raises).calls,
              raised |-> FALSE,
              caught |-> call_wrapper_with_message(w, method_name, msg, method_raises).raised]
        ELSE [calls |-> << >>, raised |-> FALSE, caught |-> FALSE]

(***************************************************************************)
(* MessageDispatcher.                                                      *)
(***************************************************************************)
ZeroStats == [messages_processed |-> 0, messages_failed |-> 0, validation_errors |-> 0,
              unknown_messages |-> 0, processing_time |-> 0]

\* A pre-processor or post-processor is a callable of the user.  "pass" returns
\* (a pre-processor returns the fields it was given), "raise" raises.
ProcessorKinds == {"pass", "raise"}

\* whether running the processors in order raises, and how many of them were called
ProcessorsRaise(procs) == \E i \in 1..Len(procs) : procs[i] = "raise"

ProcessorsCalled(procs) ==
    IF ProcessorsRaise(procs)
    THEN CHOOSE i \in 1..Len(procs) :
            procs[i] = "raise" /\ \A j \in 1..(i - 1) : procs[j] # "raise"
    ELSE Len(procs)

\* what an operation did; for a dispatch call, before anything is known about
\* the record
Idle(name, fields) ==
    [name |-> name,              \* the operation
     fields |-> fields,          \* the argument of a dispatch call
     ret |-> NoMessage,          \* the value returned (NoMessage is None)
     raised |-> "no",            \* the exception the call raised to its caller
     counted |-> FALSE,          \* lines 91-92 ran
     msg_id |-> 0,               \* the tag, when counted
     failed |-> 0,               \* increments of messages_failed
     unknown |-> 0,              \* increments of unknown_messages
     lookups |-> 0,              \* get_message_class calls
     decoded |-> "not_called",   \* outcome of from_fields
     message |-> NoMessage,      \* the message from_fields built
     handler_calls |-> << >>,    \* registered handlers invoked, in order
     fallback_calls |-> 0,       \* _call_wrapper_method calls
     legacy_calls |-> 0,         \* _call_legacy_handler calls
     wrapper_calls |-> << >>,    \* calls on the consumer object, in order
     handler_raised |-> FALSE,   \* the registered handler raised
     method_raised |-> FALSE,    \* the fallback method raised (and was caught)
     pre_calls |-> 0,            \* pre-processors called
     post_calls |-> 0]           \* post-processors called

\* a dispatcher that catches the exception of the handler and does not count it
HandlerFailures_uncounted(handler, h) == 0

\* lines 129-134: the exception of the handler is caught and counted
HandlerFailures(handler, h) == IF handler # None /\ h.raised THEN 1 ELSE 0

\* lines 124-143: route the decoded message, run the post-processors, return it
Route(o, message_cls, message, method_raises) ==
    LET handler == get_handler(message_cls)
        h == IF handler # None
             THEN CallHandler(handler, wrapper, message, method_raises)
             ELSE call_wrapper_method(wrapper, message_cls, message, method_raises)
        routed == [o EXCEPT
                     !.handler_calls = IF handler # None THEN <<handler>> ELSE << >>,
                     !.fallback_calls = IF handler # None THEN 0 ELSE 1,
                     !.wrapper_calls = h.calls,
                     !.handler_raised = handler # None /\ h.raised,
                     !.method_raised = handler = None /\ h.caught,
                     !.failed = HandlerFailures(handler, h),
                     !.post_calls = ProcessorsCalled(post_processors)]
    IN  IF ProcessorsRaise(post_processors)
        THEN [routed EXCEPT !.raised = "post_processor"]
        ELSE [routed EXCEPT !.ret = message]

\* a dispatcher that catches the exception of from_fields and does not count it
DecodeFailure_uncounted(o) == [o EXCEPT !.decoded = "raise"]

\* lines 114-120: the exception of from_fields is caught and counted
DecodeFailure(o) == [o EXCEPT !.decoded = "raise", !.failed = 1]

\* a dispatcher that counts a suppressed record as a failure
SuppressedRecord_failed(o) == [o EXCEPT !.decoded = "none", !.failed = 1]

\* lines 110-113: from_fields returned None, dispatch returns None at once
SuppressedRecord(o) == [o EXCEPT !.decoded = "none"]

\* lines 98-143: look the decoder up, decode, route
Decode(o, msg_id, method_raises) ==
    LET message_cls == get_message_class(msg_id)
        looked == [o EXCEPT !.lookups = 1]
        dec == from_fields(message_cls, o.fields, server_version)
    IN  IF message_cls = None
        THEN [looked EXCEPT !.unknown = 1, !.legacy_calls = 1]
        ELSE IF dec.kind = "none" THEN SuppressedRecord(looked)
        ELSE IF dec.kind = "raise" THEN DecodeFailure(looked)
        ELSE Route([looked EXCEPT !.decoded = "message", !.message = dec.message],
                   message_cls, dec.message, method_raises)

\* a dispatcher that drops a record without a tag and does not count it
RejectRecord_uncounted(fields) == Idle("dispatch", fields)

\* lines 78-88: a record without a tag is counted as failed and dropped
RejectRecord(fields) == [Idle("dispatch", fields) EXCEPT !.failed = 1]

\* lines 76-143: the body of dispatch
dispatch_body(fields, method_raises) ==
    IF fields = << >> \/ fields[1] = ""
    THEN RejectRecord(fields)
    ELSE IF ~IsInt(fields[1])
    THEN RejectRecord(fields)
    ELSE LET msg_id == IntOf(fields[1])
             counted == [Idle("dispatch", fields) EXCEPT !.counted = TRUE, !.msg_id = msg_id,
                                             !.pre_calls = ProcessorsCalled(pre_processors)]
         IN  IF ProcessorsRaise(pre_processors)
             THEN [counted EXCEPT !.raised = "pre_processor"]
             ELSE Decode(counted, msg_id, method_raises)

\* the elapsed time of one call, in clock ticks
Elapsed == {1}

\* a dispatcher that counts a record as processed only when its tag is registered
ProcessedIncrement_known_only(o) == IF o.counted /\ o.unknown = 0 THEN 1 ELSE 0

\* line 91: every record that carries an integer tag is counted once
ProcessedIncrement(o) == IF o.counted THEN 1 ELSE 0

\* lines 80, 87, 91, 103, 119, 134, 147: the counters after a call that did o
CountedStats(s, o, elapsed) ==
    [s EXCEPT !.messages_processed = @ + ProcessedIncrement(o),
              !.messages_failed = @ + o.failed,
              !.unknown_messages = @ + o.unknown,
              !.processing_time = @ + elapsed]

\* line 92: the per-tag counts after a call that did o
CountedTags(counts, o) ==
    IF o.counted
    THEN DictSet(counts, o.msg_id, DictGet(counts, o.msg_id, 0) + 1)
    ELSE counts

\* the statistics of a dispatcher that was just constructed (lines 51-58)
FreshStatistics == [stats |-> ZeroStats, message_counts |-> EmptyDict]

dispatch(fields, method_raises, elapsed) ==
    LET o == dispatch_body(fields, method_raises)
    IN  /\ ncalls < MaxDispatch
        /\ ncalls' = ncalls + 1
        /\ op' = o
        /\ stats' = CountedStats(stats, o, elapsed)
        /\ message_counts' = CountedTags(message_counts, o)
        /\ twin' = [stats |-> CountedStats(twin.stats, o, elapsed),
                    message_counts |-> CountedTags(twin.message_counts, o)]
        /\ UNCHANGED <<message_classes, handlers, MESSAGE_ID, wrapper, server_version,
                       pre_processors, post_processors, restVars>>

add_pre_processor(processor) ==
    /\ Len(pre_processors) < MaxProcessors
    /\ pre_processors' = Append(pre_processors, processor)
    /\ op' = Idle("add_pre_processor", << >>)
    /\ UNCHANGED <<message_classes, handlers, MESSAGE_ID, wrapper, server_version, stats,
                   message_counts, post_processors, ncalls, twin, restVars>>

add_post_processor(processor) ==
    /\ Len(post_processors) < MaxProcessors
    /\ post_processors' = Append(post_processors, processor)
    /\ op' = Idle("add_post_processor", << >>)
    /\ UNCHANGED <<message_classes, handlers, MESSAGE_ID, wrapper, server_version, stats,
                   message_counts, pre_processors, ncalls, twin, restVars>>

\* a reset that replaces the stats dict and keeps the per-tag counts
reset_statistics_keeps_counts ==
    /\ stats' = ZeroStats
    /\ message_counts' = message_counts
    /\ op' = Idle("reset_statistics", << >>)
    /\ twin' = FreshStatistics
    /\ UNCHANGED <<message_classes, handlers, MESSAGE_ID, wrapper, server_version,
                   pre_processors, post_processors, ncalls, restVars>>

reset_statistics ==
    /\ stats' = ZeroStats
    /\ message_counts' = EmptyDict
    /\ op' = Idle("reset_statistics", << >>)
    /\ twin' = FreshStatistics
    /\ UNCHANGED <<message_classes, handlers, MESSAGE_ID, wrapper, server_version,
                   pre_processors, post_processors, ncalls, restVars>>

\* a quotient of two counters, kept as numerator and denominator
Ratio(num, den) == [num |-> num, den |-> den]

\* get_statistics(): a copy of stats with the per-tag counts and the two derived
\* values, which are 0 when no message was processed
StatisticsOf(s, counts) ==
    [messages_processed |-> s.messages_processed,
     messages_failed |-> s.messages_failed,
     validation_errors |-> s.validation_errors,
     unknown_messages |-> s.unknown_messages,
     processing_time |-> s.processing_time,
     message_counts |-> counts,
     avg_processing_time |->
         IF s.messages_processed > 0
         THEN Ratio(s.processing_time, s.messages_processed)
         ELSE Ratio(0, 1),
     error_rate |->
         IF s.messages_processed > 0
         THEN Ratio(s.messages_failed, s.messages_processed)
         ELSE Ratio(0, 1)]

get_statistics == StatisticsOf(stats, message_counts)

(***************************************************************************)
(* Decoding a fixture and encoding the message again:                      *)
(* cls.from_fields(fields, server_version).to_fields().                    *)
(***************************************************************************)
call_to_fields(cls, fields, sv) ==
    LET decoded == from_fields(cls, fields, sv)
    IN  /\ rec' = [cls |-> cls, fields |-> fields, sv |-> sv]
        /\ out' = [kind |-> decoded.kind,
                   message |-> decoded.message,
                   encoded |-> IF decoded.kind = "message" THEN to_fields(decoded.message)
                               ELSE << >>]
        /\ UNCHANGED <<dispatcherVars, contractVars, cursorVars, threadVars>>

(***************************************************************************)
(* dispatch called from several threads on one MessageDispatcher.  The     *)
(* code takes no lock: `self.stats[k] += 1` and `self.message_counts[t] =  *)
(* self.message_counts.get(t, 0) + 1` each read the counter and write it   *)
(* back in two steps, and another thread can run between the two.  A       *)
(* thread holds the counter updates its call has still to make, in the     *)
(* order of the code, the value it has read for the first of them (a list  *)
(* that is empty when it has read none), and the calls it has made.        *)
(***************************************************************************)
ThreadIds == {1, 2}

NoThreads == [t \in ThreadIds |-> [pending |-> << >>, loaded |-> << >>, sent |-> << >>]]

Counter(name, tag) == [counter |-> name, tag |-> tag]

\* the counter updates of a dispatch call that does o, in the order of the code:
\* lines 80/87 or 91, 92, then 103 or 119 or 134, and 147 in the finally clause
CounterUpdates(o) ==
    (IF o.counted
     THEN <<Counter("messages_processed", 0), Counter("message_counts", o.msg_id)>>
     ELSE << >>)
    \o (IF o.unknown = 1 THEN <<Counter("unknown_messages", 0)>> ELSE << >>)
    \o (IF o.failed = 1 THEN <<Counter("messages_failed", 0)>> ELSE << >>)
    \o <<Counter("processing_time", 0)>>

\* the value of a counter: self.stats[name], or self.message_counts.get(tag, 0)
CounterValue(c) ==
    IF c.counter = "message_counts" THEN DictGet(message_counts, c.tag, 0)
    ELSE stats[c.counter]

\* a thread enters dispatch: the record is decoded and routed, the counter
\* updates of the call are still to be made
thread_dispatch(t, fields, method_raises, elapsed) ==
    LET o == dispatch_body(fields, method_raises)
    IN  /\ threads[t].pending = << >>
        /\ Len(threads[t].sent) < MaxThreadDispatch
        /\ threads' = [threads EXCEPT ![t].pending = CounterUpdates(o),
                                      ![t].sent = Append(@, o)]
        /\ UNCHANGED <<dispatcherVars, contractVars, cursorVars, decodeVars>>

\* a thread reads the counter of its next update
thread_load(t) ==
    /\ threads[t].pending # << >>
    /\ threads[t].loaded = << >>
    /\ threads' = [threads EXCEPT ![t].loaded = <<CounterValue(Head(threads[t].pending))>>]
    /\ UNCHANGED <<dispatcherVars, contractVars, cursorVars, decodeVars>>

\* a thread writes the value it has read, plus one, back to the counter
thread_store(t) ==
    LET c == Head(threads[t].pending)
        v == threads[t].loaded[1] + 1
    IN  /\ threads[t].pending # << >>
        /\ threads[t].loaded # << >>
        /\ threads' = [threads EXCEPT ![t].pending = Tail(@), ![t].loaded = << >>]
        /\ stats' = IF c.counter = "message_counts" THEN stats
                    ELSE [stats EXCEPT ![c.counter] = v]
        /\ message_counts' = IF c.counter = "message_counts"
                             THEN DictSet(message_counts, c.tag, v)
                             ELSE message_counts
        /\ UNCHANGED <<message_classes, handlers, MESSAGE_ID, wrapper, server_version,
                       pre_processors, post_processors, op, ncalls, lookup, twin,
                       contractVars, cursorVars, decodeVars>>

(***************************************************************************)
(* ContractAdapter.  An attribute bag is a record of attribute tokens;     *)
(* Absent marks a key the dict does not have.  combo_legs is the number of *)
(* legs of the list, -1 when the key is absent.                            *)
(***************************************************************************)
Absent == "<absent>"

SecurityTypeValues == {"STK", "OPT", "FUT", "CONTFUT", "CASH", "IND", "CFD", "BOND",
                       "CMDTY", "FOP", "FUND", "WAR", "IOPT", "BAG", "CRYPTO", "NEWS",
                       "EVENT"}

OptionTypeValues == {"C", "P"}

ExchangeValues ==
    {"SMART", "NYSE", "NASDAQ", "AMEX", "ARCA", "ISLAND", "BATS", "IEX", "EDGEA", "BYX",
     "CBOE", "ISE", "PHLX", "BOX", "GLOBEX", "ECBOT", "NYMEX", "COMEX", "CBOT", "ICE",
     "CFE", "NYBOT", "IBIS", "LSE", "SBF", "AEB", "BVME", "IBIS2", "FWB", "SWB", "BATEEN",
     "SEHK", "HKFE", "TSE", "OSE.JPN", "SGX", "NSE", "ASX", "SNFE", "TSX", "VENTURE", "MX",
     "IDEALPRO", "FXCONV", "PAXOS"}

\* the members of SpecializedContractUnion by the value of their discriminator
UnionTags == {"STK", "OPT", "FUT", "CONTFUT", "CASH", "IND", "CFD", "BOND", "CMDTY",
              "FOP", "FUND", "WAR", "BAG", "CRYPTO"}

VariantOf(tag) ==
    CASE tag = "STK" -> "Stock" [] tag = "OPT" -> "Option" [] tag = "FUT" -> "Future"
      [] tag = "CONTFUT" -> "ContFuture" [] tag = "CASH" -> "Forex" [] tag = "IND" -> "Index"
      [] tag = "CFD" -> "CFD" [] tag = "BOND" -> "Bond" [] tag = "CMDTY" -> "Commodity"
      [] tag = "FOP" -> "FuturesOption" [] tag = "FUND" -> "MutualFund"
      [] tag = "WAR" -> "Warrant" [] tag = "BAG" -> "Bag" [] tag = "CRYPTO" -> "Crypto"

\* Decimal(token) succeeds, and its value in hundredths
IsDecimal(s) == IsFloat(s)
DecimalOf(s) == FloatOf(s)

\* the fields of Contract accept the bag (Contract.model_validate succeeds)
ContractFieldsValid(b) ==
    /\ b.security_type \in SecurityTypeValues \cup {Absent}
    /\ b.strike = Absent \/ IsDecimal(b.strike)
    /\ b.option_type \in OptionTypeValues \cup {Absent, ""}
    /\ b.combo_legs >= -1

\* the instance built from a bag that was accepted, with the defaults of the variant
ContractInstance(variant, b, default_exchange) ==
    [variant |-> variant,
     security_type |-> IF b.security_type = Absent THEN None ELSE b.security_type,
     strike |-> IF b.strike = Absent THEN 0 ELSE DecimalOf(b.strike),
     option_type |-> IF b.option_type \in {Absent, ""} THEN None ELSE b.option_type,
     exchange |-> IF b.exchange = Absent THEN default_exchange ELSE b.exchange,
     combo_legs |-> IF b.combo_legs = -1 THEN 0 ELSE b.combo_legs]

ValidationError == [variant |-> "ValidationError", security_type |-> None, strike |-> 0,
                    option_type |-> None, exchange |-> None, combo_legs |-> 0]

\* the variants whose exchange field is the Exchange enum, and its default
EnumExchangeVariants == {"Stock", "Option", "Future", "Forex", "Crypto"}

DefaultExchange(variant) ==
    CASE variant \in {"Stock", "Option"} -> "SMART"
      [] variant = "Forex" -> "IDEALPRO"
      [] variant = "Crypto" -> "PAXOS"
      [] OTHER -> None

\* the fields of the variant accept the bag
VariantFieldsValid(variant, b) ==
    /\ ContractFieldsValid(b)
    /\ variant \in EnumExchangeVariants => b.exchange \in ExchangeValues \cup {Absent}
    /\ variant = "Future" => b.exchange # Absent
    /\ variant \in {"Option", "FuturesOption"} =>
          /\ b.strike # Absent
          /\ DecimalOf(b.strike) > 0
          /\ b.option_type \in OptionTypeValues
    /\ variant = "Bag" => b.combo_legs >= 1

\* TypeAdapter(SpecializedContractUnion).validate_python(data)
validate_python(b) ==
    IF b.security_type \in UnionTags /\ VariantFieldsValid(VariantOf(b.security_type), b)
    THEN ContractInstance(VariantOf(b.security_type), b,
                          DefaultExchange(VariantOf(b.security_type)))
    ELSE ValidationError

\* Contract.model_validate(data)
Contract_model_validate(b) ==
    IF ContractFieldsValid(b) THEN ContractInstance("Contract", b, None)
    ELSE ValidationError

\* ContractAdapter.parse with the two attempts in the other order
ContractAdapter_parse_generic_first(b) ==
    IF Contract_model_validate(b) # ValidationError THEN Contract_model_validate(b)
    ELSE validate_python(b)

\* ContractAdapter.parse(data); the result ValidationError is the exception raised
ContractAdapter_parse(b) ==
    IF validate_python(b) # ValidationError THEN validate_python(b)
    ELSE Contract_model_validate(b)

Bags ==
    [security_type : {Absent, "", "XYZ", "STK", "OPT", "FOP", "FUT", "BAG", "IND", "IOPT"},
     strike : {Absent, "100", "0", "-1", "abc"},
     option_type : {Absent, "", "C", "X"},
     exchange : {Absent, "SMART", "MYEXCH"},
     combo_legs : {-1, 0, 1}]

EmptyBag == [security_type |-> Absent, strike |-> Absent, option_type |-> Absent,
             exchange |-> Absent, combo_legs |-> -1]

\* resolved before ContractAdapter.parse was called
NotParsed == [variant |-> "NotParsed", security_type |-> None, strike |-> 0,
              option_type |-> None, exchange |-> None, combo_legs |-> 0]

parse ==
    /\ resolved = NotParsed
    /\ resolved' = ContractAdapter_parse(bag)
    /\ UNCHANGED <<bag, dispatcherVars, cursorVars, decodeVars, threadVars>>

(***************************************************************************)
(* Operations on one FieldIterator object.  call records the last call:    *)
(* its name, its argument, the cursor before it, the value it returned and *)
(* whether it raised.  prev is the name of the call before it, calls       *)
(* counts the calls made since construction, nexts those of them that were *)
(* next(), start is the start_index of the construction.                   *)
(***************************************************************************)
NoCursor == [fields |-> << >>, index |-> 0, length |-> 0]

NoCall == [name |-> "none", prev |-> "none", arg |-> PyNone, before |-> NoCursor,
           value |-> PyNone, raised |-> FALSE, calls |-> 0, nexts |-> 0, start |-> 0]

Called(name, arg, value, raised) ==
    [name |-> name, prev |-> call.name, arg |-> arg, before |-> cur, value |-> value,
     raised |-> raised,
     calls |-> call.calls + 1,
     nexts |-> call.nexts + (IF name = "next" THEN 1 ELSE 0),
     start |-> call.start]

Constructed == call.name # "none"

CursorFrame == UNCHANGED <<dispatcherVars, contractVars, decodeVars, threadVars>>

new_FieldIterator(fields, start_index) ==
    /\ ~Constructed
    /\ cur' = FieldIterator(fields, start_index)
    /\ call' = [NoCall EXCEPT !.name = "__init__", !.arg = PyInt(start_index),
                              !.start = start_index]
    /\ CursorFrame

call_next(default) ==
    LET r == next(cur, default)
    IN  /\ Constructed /\ call.calls < MaxCalls
        /\ cur' = r.it
        /\ call' = Called("next", PyStr(default), PyStr(r.value), r.raised)
        /\ CursorFrame

call_next_int(default) ==
    LET r == next_int(cur, default)
    IN  /\ Constructed /\ call.calls < MaxCalls
        /\ cur' = r.it
        /\ call' = Called("next_int", PyInt(default), PyInt(r.value), r.raised)
        /\ CursorFrame

call_next_float(default) ==
    LET r == next_float(cur, default)
    IN  /\ Constructed /\ call.calls < MaxCalls
        /\ cur' = r.it
        /\ call' = Called("next_float", PyFloat(default), PyFloat(r.value), r.raised)
        /\ CursorFrame

call_next_bool(default) ==
    LET r == next_bool(cur, default)
    IN  /\ Constructed /\ call.calls < MaxCalls
        /\ cur' = r.it
        /\ call' = Called("next_bool", PyBool(default), PyBool(r.value), r.raised)
        /\ CursorFrame

call_peek(offset) ==
    LET r == peek(cur, offset)
    IN  /\ Constructed /\ call.calls < MaxCalls
        /\ cur' = cur
        /\ call' = Called("peek", PyInt(offset),
                          IF r.found THEN PyStr(r.value) ELSE PyNone, r.raised)
        /\ CursorFrame

call_skip(count) ==
    /\ Constructed /\ call.calls < MaxCalls
    /\ cur' = skip(cur, count)
    /\ call' = Called("skip", PyInt(count), PyNone, FALSE)
    /\ CursorFrame

call_has_more ==
    /\ Constructed /\ call.calls < MaxCalls
    /\ cur' = cur
    /\ call' = Called("has_more", PyNone, PyBool(has_more(cur)), FALSE)
    /\ CursorFrame

call_remaining ==
    /\ Constructed /\ call.calls < MaxCalls
    /\ cur' = cur
    /\ call' = Called("remaining", PyNone, PyInt(remaining(cur)), FALSE)
    /\ CursorFrame

call_consume_rest ==
    LET r == consume_rest(cur)
    IN  /\ Constructed /\ call.calls < MaxCalls
        /\ cur' = r.it
        /\ call' = Called("consume_rest", PyNone, PyList(r.value), FALSE)
        /\ CursorFrame

(***************************************************************************)
(* The from_fields bodies of the decoders with version gates or repeated   *)
(* groups, as statement tables: one entry per statement of the body, in    *)
(* source order, with the source line after it.                            *)
(*   Rd(fn, cls, attr, key)  key = it.fn() where key names an attribute    *)
(*                          attr of an object of class cls, or a local     *)
(*   Sk(n)                  it.skip(n)                                     *)
(*   St(cls, attr, key)     key = a value built from tokens already read   *)
(*   Pos(cls)               cls(a, b, ..) with positional arguments        *)
(*   Cast(key)              float(key)                                     *)
(*   App(key)               key.append(..)                                 *)
(*   Ver(rel, n, body)      if server_version rel n: body                  *)
(*   If(kind, key, body)    if <test on key>: body                         *)
(*   For(key, body)         for _ in range(key): body                      *)
(***************************************************************************)
Stmt(k, fn, cls, attr, key, n, body) ==
    [k |-> k, fn |-> fn, cls |-> cls, attr |-> attr, key |-> key, n |-> n, body |-> body]

Rd(fn, cls, attr, key) == Stmt("read", fn, cls, attr, key, 0, << >>)

Sk(n) == Stmt("skip", "", "local", "", "", n, << >>)

St(cls, attr, key) == Stmt("set", "", cls, attr, key, 0, << >>)

Pos(cls) == Stmt("ctor", "", cls, "", "", 0, << >>)

Cast(key) == Stmt("float", "", "local", "", key, 0, << >>)

App(key) == Stmt("append", "", "local", "", key, 0, << >>)

Ver(rel, n, body) == Stmt("ver", rel, "local", "", "", n, body)

If(kind, key, body) == Stmt("if", kind, "local", "", key, 0, body)

For(key, body) == Stmt("for", "", "local", "", key, 0, body)

OpenOrderMessage_body ==
    <<
    Sk(1),  \* 71
    Rd("next_int", "Order", "orderId", "order.orderId"),  \* 78
    Rd("next_int", "Contract", "conId", "contract.conId"),  \* 79
    Rd("next", "Contract", "symbol", "contract.symbol"),  \* 80
    Rd("next", "Contract", "secType", "contract.secType"),  \* 81
    Rd("next", "Contract", "lastTradeDateOrContractMonth", "contract.lastTradeDateOrContractMonth"),  \* 82
    Rd("next_float", "Contract", "strike", "contract.strike"),  \* 83
    Rd("next", "Contract", "right", "contract.right"),  \* 84
    Rd("next", "Contract", "multiplier", "contract.multiplier"),  \* 85
    Rd("next", "Contract", "exchange", "contract.exchange"),  \* 86
    Rd("next", "Contract", "currency", "contract.currency"),  \* 87
    Rd("next", "Contract", "localSymbol", "contract.localSymbol"),  \* 88
    Rd("next", "Contract", "tradingClass", "contract.tradingClass"),  \* 89
    Rd("next", "Order", "action", "order.action"),  \* 91
    Rd("next_float", "Order", "totalQuantity", "order.totalQuantity"),  \* 92
    Rd("next", "Order", "orderType", "order.orderType"),  \* 93
    Rd("next_float", "Order", "lmtPrice", "order.lmtPrice"),  \* 94
    Rd("next_float", "Order", "auxPrice", "order.auxPrice"),  \* 95
    Rd("next", "Order", "tif", "order.tif"),  \* 96
    Rd("next", "Order", "ocaGroup", "order.ocaGroup"),  \* 97
    Rd("next", "Order", "account", "order.account"),  \* 98
    Rd("next", "Order", "openClose", "order.openClose"),  \* 99
    Rd("next_int", "Order", "origin", "order.origin"),  \* 100
    Rd("next", "Order", "orderRef", "order.orderRef"),  \* 101
    Rd("next_int", "Order", "clientId", "order.clientId"),  \* 102
    Rd("next_int", "Order", "permId", "order.permId"),  \* 103
    Rd("next_bool", "Order", "outsideRth", "order.outsideRth"),  \* 104
    Rd("next_bool", "Order", "hidden", "order.hidden"),  \* 105
    Rd("next_float", "Order", "discretionaryAmt", "order.discretionaryAmt"),  \* 106
    Rd("next", "Order", "goodAfterTime", "order.goodAfterTime"),  \* 107
    Sk(1),  \* 108
    Rd("next", "Order", "faGroup", "order.faGroup"),  \* 109
    Rd("next", "Order", "faMethod", "order.faMethod"),  \* 110
    Rd("next", "Order", "faPercentage", "order.faPercentage"),  \* 111
    Ver("<", 177, <<   \* 113
        Rd("next", "Order", "faProfile", "order.faProfile")   \* 114
    >>),
    Rd("next", "Order", "modelCode", "order.modelCode"),  \* 116
    Rd("next", "Order", "goodTillDate", "order.goodTillDate"),  \* 117
    Rd("next", "Order", "rule80A", "order.rule80A"),  \* 118
    Rd("next_float", "Order", "percentOffset", "order.percentOffset"),  \* 119
    Rd("next", "Order", "settlingFirm", "order.settlingFirm"),  \* 120
    Rd("next_int", "Order", "shortSaleSlot", "order.shortSaleSlot"),  \* 121
    Rd("next", "Order", "designatedLocation", "order.designatedLocation"),  \* 122
    Rd("next_int", "Order", "exemptCode", "order.exemptCode"),  \* 123
    Rd("next_int", "Order", "auctionStrategy", "order.auctionStrategy"),  \* 124
    Rd("next_float", "Order", "startingPrice", "order.startingPrice"),  \* 125
    Rd("next_float", "Order", "stockRefPrice", "order.stockRefPrice"),  \* 126
    Rd("next_float", "Order", "delta", "order.delta"),  \* 127
    Rd("next_float", "Order", "stockRangeLower", "order.stockRangeLower"),  \* 128
    Rd("next_float", "Order", "stockRangeUpper", "order.stockRangeUpper"),  \* 129
    Rd("next_int", "Order", "displaySize", "order.displaySize"),  \* 130
    Rd("next_bool", "Order", "blockOrder", "order.blockOrder"),  \* 131
    Rd("next_bool", "Order", "sweepToFill", "order.sweepToFill"),  \* 132
    Rd("next_bool", "Order", "allOrNone", "order.allOrNone"),  \* 133
    Rd("next_int", "Order", "minQty", "order.minQty"),  \* 134
    Rd("next_int", "Order", "ocaType", "order.ocaType"),  \* 135
    Rd("next_bool", "Order", "eTradeOnly", "order.eTradeOnly"),  \* 136
    Rd("next_bool", "Order", "firmQuoteOnly", "order.firmQuoteOnly"),  \* 137
    Rd("next_float", "Order", "nbboPriceCap", "order.nbboPriceCap"),  \* 138
    Rd("next_int", "Order", "parentId", "order.parentId"),  \* 139
    Rd("next_int", "Order", "triggerMethod", "order.triggerMethod"),  \* 140
    Rd("next_float", "Order", "volatility", "order.volatility"),  \* 141
    Rd("next_int", "Order", "volatilityType", "order.volatilityType"),  \* 142
    Rd("next", "Order", "deltaNeutralOrderType", "order.deltaNeutralOrderType"),  \* 143
    Rd("next_float", "Order", "deltaNeutralAuxPrice", "order.deltaNeutralAuxPrice"),  \* 144
    If("truthy", "order.deltaNeutralOrderType", <<   \* 147
        Rd("next_int", "Order", "deltaNeutralConId", "order.deltaNeutralConId"),  \* 148
        Rd("next", "Order", "deltaNeutralSettlingFirm", "order.deltaNeutralSettlingFirm"),  \* 149
        Rd("next", "Order", "deltaNeutralClearingAccount", "order.deltaNeutralClearingAccount"),  \* 150
        Rd("next", "Order", "deltaNeutralClearingIntent", "order.deltaNeutralClearingIntent"),  \* 151
        Rd("next", "Order", "deltaNeutralOpenClose", "order.deltaNeutralOpenClose"),  \* 152
        Rd("next_bool", "Order", "deltaNeutralShortSale", "order.deltaNeutralShortSale"),  \* 153
        Rd("next_int", "Order", "deltaNeutralShortSaleSlot", "order.deltaNeutralShortSaleSlot"),  \* 154
        Rd("next", "Order", "deltaNeutralDesignatedLocation", "order.deltaNeutralDesignatedLocation")   \* 155
    >>),
    Rd("next_bool", "Order", "continuousUpdate", "order.continuousUpdate"),  \* 157
    Rd("next_int", "Order", "referencePriceType", "order.referencePriceType"),  \* 158
    Rd("next_float", "Order", "trailStopPrice", "order.trailStopPrice"),  \* 159
    Rd("next_float", "Order", "trailingPercent", "order.trailingPercent"),  \* 160
    Rd("next_float", "Order", "basisPoints", "order.basisPoints"),  \* 161
    Rd("next_int", "Order", "basisPointsType", "order.basisPointsType"),  \* 162
    Rd("next", "Contract", "comboLegsDescrip", "contract.comboLegsDescrip"),  \* 163
    Rd("next_int", "local", "", "num_legs"),  \* 166
    St("Contract", "comboLegs", "contract.comboLegs"),  \* 167
    For("num_legs", <<   \* 168
        Rd("next_int", "ComboLeg", "conId", "leg.conId"),  \* 170
        Rd("next_int", "ComboLeg", "ratio", "leg.ratio"),  \* 171
        Rd("next", "ComboLeg", "action", "leg.action"),  \* 172
        Rd("next", "ComboLeg", "exchange", "leg.exchange"),  \* 173
        Rd("next_int", "ComboLeg", "openClose", "leg.openClose"),  \* 174
        Rd("next_int", "ComboLeg", "shortSaleSlot", "leg.shortSaleSlot"),  \* 175
        Rd("next", "ComboLeg", "designatedLocation", "leg.designatedLocation"),  \* 176
        Rd("next_int", "ComboLeg", "exemptCode", "leg.exemptCode"),  \* 177
        App("contract.comboLegs")   \* 178
    >>),
    Rd("next_int", "local", "", "num_order_legs"),  \* 181
    St("Order", "orderComboLegs", "order.orderComboLegs"),  \* 182
    For("num_order_legs", <<   \* 183
        Rd("next_float", "OrderComboLeg", "price", "leg.price"),  \* 185
        App("order.orderComboLegs")   \* 186
    >>),
    Rd("next_int", "local", "", "num_params"),  \* 189
    If("positive", "num_params", <<   \* 190
        St("Order", "smartComboRoutingParams", "order.smartComboRoutingParams"),  \* 191
        For("num_params", <<   \* 192
            Rd("next", "local", "", "tag"),  \* 193
            Rd("next", "local", "", "value"),  \* 194
            Pos("TagValue"),  \* 195
            App("order.smartComboRoutingParams")   \* 195
        >>)
    >>),
    Rd("next_int", "Order", "scaleInitLevelSize", "order.scaleInitLevelSize"),  \* 198
    Rd("next_int", "Order", "scaleSubsLevelSize", "order.scaleSubsLevelSize"),  \* 199
    Rd("next", "local", "", "increment"),  \* 200
    Cast("increment"),  \* 201
    St("Order", "scalePriceIncrement", "order.scalePriceIncrement"),  \* 201
    If("scale", "increment", <<   \* 203
        Rd("next_float", "Order", "scalePriceAdjustValue", "order.scalePriceAdjustValue"),  \* 204
        Rd("next_int", "Order", "scalePriceAdjustInterval", "order.scalePriceAdjustInterval"),  \* 205
        Rd("next_float", "Order", "scaleProfitOffset", "order.scaleProfitOffset"),  \* 206
        Rd("next_bool", "Order", "scaleAutoReset", "order.scaleAutoReset"),  \* 207
        Rd("next_int", "Order", "scaleInitPosition", "order.scaleInitPosition"),  \* 208
        Rd("next_int", "Order", "scaleInitFillQty", "order.scaleInitFillQty"),  \* 209
        Rd("next_bool", "Order", "scaleRandomPercent", "order.scaleRandomPercent")   \* 210
    >>),
    Rd("next", "Order", "hedgeType", "order.hedgeType"),  \* 213
    If("truthy", "order.hedgeType", <<   \* 214
        Rd("next", "Order", "hedgeParam", "order.hedgeParam")   \* 215
    >>),
    Rd("next_bool", "Order", "optOutSmartRouting", "order.optOutSmartRouting"),  \* 217
    Rd("next", "Order", "clearingAccount", "order.clearingAccount"),  \* 218
    Rd("next", "Order", "clearingIntent", "order.clearingIntent"),  \* 219
    Rd("next_bool", "Order", "notHeld", "order.notHeld"),  \* 220
    Rd("next_bool", "local", "", "dnc_present"),  \* 223
    If("bool", "dnc_present", <<   \* 224
        Rd("next_int", "local", "", "con_id"),  \* 225
        Rd("next_float", "local", "", "delta"),  \* 226
        Rd("next_float", "local", "", "price"),  \* 227
        Pos("DeltaNeutralContract"),  \* 228
        St("Contract", "deltaNeutralContract", "contract.deltaNeutralContract")   \* 228
    >>),
    Rd("next", "Order", "algoStrategy", "order.algoStrategy"),  \* 231
    If("truthy", "order.algoStrategy", <<   \* 232
        Rd("next_int", "local", "", "num_algo_params"),  \* 233
        If("positive", "num_algo_params", <<   \* 234
            St("Order", "algoParams", "order.algoParams"),  \* 235
            For("num_algo_params", <<   \* 236
                Rd("next", "local", "", "tag"),  \* 237
                Rd("next", "local", "", "value"),  \* 238
                Pos("TagValue"),  \* 239
                App("order.algoParams")   \* 239
            >>)
        >>)
    >>),
    Rd("next_bool", "Order", "solicited", "order.solicited"),  \* 241
    Rd("next_bool", "Order", "whatIf", "order.whatIf"),  \* 242
    Rd("next", "OrderState", "status", "order_state.status"),  \* 243
    Rd("next", "OrderState", "initMarginBefore", "order_state.initMarginBefore"),  \* 244
    Rd("next", "OrderState", "maintMarginBefore", "order_state.maintMarginBefore"),  \* 245
    Rd("next", "OrderState", "equityWithLoanBefore", "order_state.equityWithLoanBefore"),  \* 246
    Rd("next", "OrderState", "initMarginChange", "order_state.initMarginChange"),  \* 247
    Rd("next", "OrderState", "maintMarginChange", "order_state.maintMarginChange"),  \* 248
    Rd("next", "OrderState", "equityWithLoanChange", "order_state.equityWithLoanChange"),  \* 249
    Rd("next", "OrderState", "initMarginAfter", "order_state.initMarginAfter"),  \* 250
    Rd("next", "OrderState", "maintMarginAfter", "order_state.maintMarginAfter"),  \* 251
    Rd("next", "OrderState", "equityWithLoanAfter", "order_state.equityWithLoanAfter"),  \* 252
    Rd("next_float", "OrderState", "commission", "order_state.commission"),  \* 253
    Rd("next_float", "OrderState", "minCommission", "order_state.minCommission"),  \* 254
    Rd("next_float", "OrderState", "maxCommission", "order_state.maxCommission"),  \* 255
    Rd("next", "OrderState", "commissionCurrency", "order_state.commissionCurrency"),  \* 256
    Rd("next", "OrderState", "warningText", "order_state.warningText"),  \* 257
    Rd("next_bool", "Order", "randomizeSize", "order.randomizeSize"),  \* 259
    Rd("next_bool", "Order", "randomizePrice", "order.randomizePrice"),  \* 260
    If("pegbench", "order.orderType", <<   \* 263
        Rd("next_int", "Order", "referenceContractId", "order.referenceContractId"),  \* 264
        Rd("next_bool", "Order", "isPeggedChangeAmountDecrease", "order.isPeggedChangeAmountDecrease"),  \* 265
        Rd("next_float", "Order", "peggedChangeAmount", "order.peggedChangeAmount"),  \* 266
        Rd("next_float", "Order", "referenceChangeAmount", "order.referenceChangeAmount"),  \* 267
        Rd("next", "Order", "referenceExchangeId", "order.referenceExchangeId")   \* 268
    >>),
    Rd("next_int", "local", "", "num_conditions"),  \* 271
    If("positive", "num_conditions", <<   \* 272
        For("num_conditions", <<   \* 273
            Rd("next_int", "local", "", "cond_type"),  \* 274
            App("order.conditions")   \* 278
        >>),
        Rd("next_bool", "Order", "conditionsIgnoreRth", "order.conditionsIgnoreRth"),  \* 280
        Rd("next_bool", "Order", "conditionsCancelOrder", "order.conditionsCancelOrder")   \* 281
    >>),
    Rd("next", "Order", "adjustedOrderType", "order.adjustedOrderType"),  \* 284
    Rd("next_float", "Order", "triggerPrice", "order.triggerPrice"),  \* 285
    Rd("next_float", "Order", "trailStopPrice", "order.trailStopPrice"),  \* 286
    Rd("next_float", "Order", "lmtPriceOffset", "order.lmtPriceOffset"),  \* 287
    Rd("next_float", "Order", "adjustedStopPrice", "order.adjustedStopPrice"),  \* 288
    Rd("next_float", "Order", "adjustedStopLimitPrice", "order.adjustedStopLimitPrice"),  \* 289
    Rd("next_float", "Order", "adjustedTrailingAmount", "order.adjustedTrailingAmount"),  \* 290
    Rd("next_int", "Order", "adjustableTrailingUnit", "order.adjustableTrailingUnit"),  \* 291
    Rd("next", "object", "name", "order.softDollarTier.name"),  \* 292
    Rd("next", "object", "val", "order.softDollarTier.val"),  \* 293
    Rd("next", "object", "displayName", "order.softDollarTier.displayName"),  \* 294
    Rd("next_float", "Order", "cashQty", "order.cashQty"),  \* 295
    Rd("next_bool", "Order", "dontUseAutoPriceForHedge", "order.dontUseAutoPriceForHedge"),  \* 296
    Rd("next_bool", "Order", "isOmsContainer", "order.isOmsContainer"),  \* 297
    Rd("next_bool", "Order", "discretionaryUpToLimitPrice", "order.discretionaryUpToLimitPrice"),  \* 298
    Rd("next_bool", "Order", "usePriceMgmtAlgo", "order.usePriceMgmtAlgo"),  \* 299
    Ver(">=", 159, <<   \* 302
        Rd("next_int", "Order", "duration", "order.duration")   \* 303
    >>),
    Ver(">=", 160, <<   \* 304
        Rd("next_int", "Order", "postToAts", "order.postToAts")   \* 305
    >>),
    Ver(">=", 162, <<   \* 306
        Rd("next_bool", "Order", "autoCancelParent", "order.autoCancelParent")   \* 307
    >>),
    Ver(">=", 170, <<   \* 308
        Rd("next_int", "Order", "minTradeQty", "order.minTradeQty"),  \* 309
        Rd("next_int", "Order", "minCompeteSize", "order.minCompeteSize"),  \* 310
        Rd("next_float", "Order", "competeAgainstBestOffset", "order.competeAgainstBestOffset"),  \* 311
        Rd("next_float", "Order", "midOffsetAtWhole", "order.midOffsetAtWhole"),  \* 312
        Rd("next_float", "Order", "midOffsetAtHalf", "order.midOffsetAtHalf")   \* 313
    >>)
    >>

CompletedOrderMessage_body ==
    <<
    Sk(1),  \* 451
    Rd("next_int", "Contract", "conId", "contract.conId"),  \* 458
    Rd("next", "Contract", "symbol", "contract.symbol"),  \* 459
    Rd("next", "Contract", "secType", "contract.secType"),  \* 460
    Rd("next", "Contract", "lastTradeDateOrContractMonth", "contract.lastTradeDateOrContractMonth"),  \* 461
    Rd("next_float", "Contract", "strike", "contract.strike"),  \* 462
    Rd("next", "Contract", "right", "contract.right"),  \* 463
    Rd("next", "Contract", "multiplier", "contract.multiplier"),  \* 464
    Rd("next", "Contract", "exchange", "contract.exchange"),  \* 465
    Rd("next", "Contract", "currency", "contract.currency"),  \* 466
    Rd("next", "Contract", "localSymbol", "contract.localSymbol"),  \* 467
    Rd("next", "Contract", "tradingClass", "contract.tradingClass"),  \* 468
    Rd("next", "Order", "action", "order.action"),  \* 471
    Rd("next_float", "Order", "totalQuantity", "order.totalQuantity"),  \* 472
    Rd("next", "Order", "orderType", "order.orderType"),  \* 473
    Rd("next_float", "Order", "lmtPrice", "order.lmtPrice"),  \* 474
    Rd("next_float", "Order", "auxPrice", "order.auxPrice"),  \* 475
    Rd("next", "Order", "tif", "order.tif"),  \* 476
    Rd("next", "Order", "ocaGroup", "order.ocaGroup"),  \* 477
    Rd("next", "Order", "account", "order.account"),  \* 478
    Rd("next", "Order", "openClose", "order.openClose"),  \* 479
    Rd("next_int", "Order", "origin", "order.origin"),  \* 480
    Rd("next", "Order", "orderRef", "order.orderRef"),  \* 481
    Rd("next_int", "Order", "permId", "order.permId"),  \* 482
    Rd("next_bool", "Order", "outsideRth", "order.outsideRth"),  \* 483
    Rd("next_bool", "Order", "hidden", "order.hidden"),  \* 484
    Rd("next_float", "Order", "discretionaryAmt", "order.discretionaryAmt"),  \* 485
    Rd("next", "Order", "goodAfterTime", "order.goodAfterTime"),  \* 486
    Rd("next", "Order", "faGroup", "order.faGroup"),  \* 487
    Rd("next", "Order", "faMethod", "order.faMethod"),  \* 488
    Rd("next", "Order", "faPercentage", "order.faPercentage"),  \* 489
    Ver("<", 177, <<   \* 491
        Rd("next", "Order", "faProfile", "order.faProfile")   \* 492
    >>),
    Rd("next", "Order", "modelCode", "order.modelCode"),  \* 494
    Rd("next", "Order", "goodTillDate", "order.goodTillDate"),  \* 495
    Rd("next", "Order", "rule80A", "order.rule80A"),  \* 496
    Rd("next_float", "Order", "percentOffset", "order.percentOffset"),  \* 497
    Rd("next", "Order", "settlingFirm", "order.settlingFirm"),  \* 498
    Rd("next_int", "Order", "shortSaleSlot", "order.shortSaleSlot"),  \* 499
    Rd("next", "Order", "designatedLocation", "order.designatedLocation"),  \* 500
    Rd("next_int", "Order", "exemptCode", "order.exemptCode"),  \* 501
    Rd("next_float", "Order", "startingPrice", "order.startingPrice"),  \* 502
    Rd("next_float", "Order", "stockRefPrice", "order.stockRefPrice"),  \* 503
    Rd("next_float", "Order", "delta", "order.delta"),  \* 504
    Rd("next_float", "Order", "stockRangeLower", "order.stockRangeLower"),  \* 505
    Rd("next_float", "Order", "stockRangeUpper", "order.stockRangeUpper"),  \* 506
    Rd("next_int", "Order", "displaySize", "order.displaySize"),  \* 507
    Rd("next_bool", "Order", "sweepToFill", "order.sweepToFill"),  \* 508
    Rd("next_bool", "Order", "allOrNone", "order.allOrNone"),  \* 509
    Rd("next_int", "Order", "minQty", "order.minQty"),  \* 510
    Rd("next_int", "Order", "ocaType", "order.ocaType"),  \* 511
    Rd("next_int", "Order", "triggerMethod", "order.triggerMethod"),  \* 512
    Rd("next_float", "Order", "volatility", "order.volatility"),  \* 513
    Rd("next_int", "Order", "volatilityType", "order.volatilityType"),  \* 514
    Rd("next", "Order", "deltaNeutralOrderType", "order.deltaNeutralOrderType"),  \* 515
    Rd("next_float", "Order", "deltaNeutralAuxPrice", "order.deltaNeutralAuxPrice"),  \* 516
    If("truthy", "order.deltaNeutralOrderType", <<   \* 519
        Rd("next_int", "Order", "deltaNeutralConId", "order.deltaNeutralConId"),  \* 520
        Rd("next_bool", "Order", "deltaNeutralShortSale", "order.deltaNeutralShortSale"),  \* 521
        Rd("next_int", "Order", "deltaNeutralShortSaleSlot", "order.deltaNeutralShortSaleSlot"),  \* 522
        Rd("next", "Order", "deltaNeutralDesignatedLocation", "order.deltaNeutralDesignatedLocation")   \* 523
    >>),
    Rd("next_bool", "Order", "continuousUpdate", "order.continuousUpdate"),  \* 525
    Rd("next_int", "Order", "referencePriceType", "order.referencePriceType"),  \* 526
    Rd("next_float", "Order", "trailStopPrice", "order.trailStopPrice"),  \* 527
    Rd("next_float", "Order", "trailingPercent", "order.trailingPercent"),  \* 528
    Rd("next", "Contract", "comboLegsDescrip", "contract.comboLegsDescrip"),  \* 529
    Rd("next_int", "local", "", "num_legs"),  \* 532
    St("Contract", "comboLegs", "contract.comboLegs"),  \* 533
    For("num_legs", <<   \* 534
        Rd("next_int", "ComboLeg", "conId", "leg.conId"),  \* 536
        Rd("next_int", "ComboLeg", "ratio", "leg.ratio"),  \* 537
        Rd("next", "ComboLeg", "action", "leg.action"),  \* 538
        Rd("next", "ComboLeg", "exchange", "leg.exchange"),  \* 539
        Rd("next_int", "ComboLeg", "openClose", "leg.openClose"),  \* 540
        Rd("next_int", "ComboLeg", "shortSaleSlot", "leg.shortSaleSlot"),  \* 541
        Rd("next", "ComboLeg", "designatedLocation", "leg.designatedLocation"),  \* 542
        Rd("next_int", "ComboLeg", "exemptCode", "leg.exemptCode"),  \* 543
        App("contract.comboLegs")   \* 544
    >>),
    Rd("next_int", "local", "", "num_order_legs"),  \* 547
    St("Order", "orderComboLegs", "order.orderComboLegs"),  \* 548
    For("num_order_legs", <<   \* 549
        Rd("next_float", "OrderComboLeg", "price", "leg.price"),  \* 551
        App("order.orderComboLegs")   \* 552
    >>),
    Rd("next_int", "local", "", "num_params"),  \* 555
    If("positive", "num_params", <<   \* 556
        St("Order", "smartComboRoutingParams", "order.smartComboRoutingParams"),  \* 557
        For("num_params", <<   \* 558
            Rd("next", "local", "", "tag"),  \* 559
            Rd("next", "local", "", "value"),  \* 560
            Pos("TagValue"),  \* 561
            App("order.smartComboRoutingParams")   \* 561
        >>)
    >>),
    Rd("next_int", "Order", "scaleInitLevelSize", "order.scaleInitLevelSize"),  \* 564
    Rd("next_int", "Order", "scaleSubsLevelSize", "order.scaleSubsLevelSize"),  \* 565
    Rd("next", "local", "", "increment"),  \* 566
    Cast("increment"),  \* 567
    St("Order", "scalePriceIncrement", "order.scalePriceIncrement"),  \* 567
    If("scale", "increment", <<   \* 569
        Rd("next_float", "Order", "scalePriceAdjustValue", "order.scalePriceAdjustValue"),  \* 570
        Rd("next_int", "Order", "scalePriceAdjustInterval", "order.scalePriceAdjustInterval"),  \* 571
        Rd("next_float", "Order", "scaleProfitOffset", "order.scaleProfitOffset"),  \* 572
        Rd("next_bool", "Order", "scaleAutoReset", "order.scaleAutoReset"),  \* 573
        Rd("next_int", "Order", "scaleInitPosition", "order.scaleInitPosition"),  \* 574
        Rd("next_int", "Order", "scaleInitFillQty", "order.scaleInitFillQty"),  \* 575
        Rd("next_bool", "Order", "scaleRandomPercent", "order.scaleRandomPercent")   \* 576
    >>),
    Rd("next", "Order", "hedgeType", "order.hedgeType"),  \* 579
    If("truthy", "order.hedgeType", <<   \* 580
        Rd("next", "Order", "hedgeParam", "order.hedgeParam")   \* 581
    >>),
    Rd("next", "Order", "clearingAccount", "order.clearingAccount"),  \* 583
    Rd("next", "Order", "clearingIntent", "order.clearingIntent"),  \* 584
    Rd("next_bool", "Order", "notHeld", "order.notHeld"),  \* 585
    Rd("next_bool", "local", "", "dnc_present"),  \* 588
    If("bool", "dnc_present", <<   \* 589
        Rd("next_int", "local", "", "con_id"),  \* 590
        Rd("next_float", "local", "", "delta"),  \* 591
        Rd("next_float", "local", "", "price"),  \* 592
        Pos("DeltaNeutralContract"),  \* 593
        St("Contract", "deltaNeutralContract", "contract.deltaNeutralContract")   \* 593
    >>),
    Rd("next", "Order", "algoStrategy", "order.algoStrategy"),  \* 596
    If("truthy", "order.algoStrategy", <<   \* 597
        Rd("next_int", "local", "", "num_algo_params"),  \* 598
        If("positive", "num_algo_params", <<   \* 599
            St("Order", "algoParams", "order.algoParams"),  \* 600
            For("num_algo_params", <<   \* 601
                Rd("next", "local", "", "tag"),  \* 602
                Rd("next", "local", "", "value"),  \* 603
                Pos("TagValue"),  \* 604
                App("order.algoParams")   \* 604
            >>)
        >>)
    >>),
    Rd("next_bool", "Order", "solicited", "order.solicited"),  \* 606
    Rd("next", "OrderState", "status", "order_state.status"),  \* 607
    Rd("next_bool", "Order", "randomizeSize", "order.randomizeSize"),  \* 608
    Rd("next_bool", "Order", "randomizePrice", "order.randomizePrice"),  \* 609
    If("pegbench", "order.orderType", <<   \* 612
        Rd("next_int", "Order", "referenceContractId", "order.referenceContractId"),  \* 613
        Rd("next_bool", "Order", "isPeggedChangeAmountDecrease", "order.isPeggedChangeAmountDecrease"),  \* 614
        Rd("next_float", "Order", "peggedChangeAmount", "order.peggedChangeAmount"),  \* 615
        Rd("next_float", "Order", "referenceChangeAmount", "order.referenceChangeAmount"),  \* 616
        Rd("next", "Order", "referenceExchangeId", "order.referenceExchangeId")   \* 617
    >>),
    Rd("next_int", "local", "", "num_conditions"),  \* 620
    If("positive", "num_conditions", <<   \* 621
        For("num_conditions", <<   \* 622
            Rd("next_int", "local", "", "cond_type"),  \* 623
            App("order.conditions")   \* 626
        >>),
        Rd("next_bool", "Order", "conditionsIgnoreRth", "order.conditionsIgnoreRth"),  \* 628
        Rd("next_bool", "Order", "conditionsCancelOrder", "order.conditionsCancelOrder")   \* 629
    >>),
    Rd("next_float", "Order", "trailStopPrice", "order.trailStopPrice"),  \* 632
    Rd("next_float", "Order", "lmtPriceOffset", "order.lmtPriceOffset"),  \* 633
    Rd("next_float", "Order", "cashQty", "order.cashQty"),  \* 634
    Rd("next_bool", "Order", "dontUseAutoPriceForHedge", "order.dontUseAutoPriceForHedge"),  \* 635
    Rd("next_bool", "Order", "isOmsContainer", "order.isOmsContainer"),  \* 636
    Rd("next", "Order", "autoCancelDate", "order.autoCancelDate"),  \* 637
    Rd("next_float", "Order", "filledQuantity", "order.filledQuantity"),  \* 638
    Rd("next_int", "Order", "refFuturesConId", "order.refFuturesConId"),  \* 639
    Rd("next_bool", "Order", "autoCancelParent", "order.autoCancelParent"),  \* 640
    Rd("next", "Order", "shareholder", "order.shareholder"),  \* 641
    Rd("next_bool", "Order", "imbalanceOnly", "order.imbalanceOnly"),  \* 642
    Rd("next_bool", "Order", "routeMarketableToBbo", "order.routeMarketableToBbo"),  \* 643
    Rd("next_int", "Order", "parentPermId", "order.parentPermId"),  \* 644
    Rd("next", "OrderState", "completedTime", "order_state.completedTime"),  \* 645
    Rd("next", "OrderState", "completedStatus", "order_state.completedStatus"),  \* 646
    Ver(">=", 170, <<   \* 648
        Rd("next_int", "Order", "minTradeQty", "order.minTradeQty"),  \* 649
        Rd("next_int", "Order", "minCompeteSize", "order.minCompeteSize"),  \* 650
        Rd("next_float", "Order", "competeAgainstBestOffset", "order.competeAgainstBestOffset"),  \* 651
        Rd("next_float", "Order", "midOffsetAtWhole", "order.midOffsetAtWhole"),  \* 652
        Rd("next_float", "Order", "midOffsetAtHalf", "order.midOffsetAtHalf")   \* 653
    >>)
    >>

ExecDetailsMessage_body ==
    <<
    Sk(1),  \* 335
    Rd("next_int", "local", "", "req_id"),  \* 337
    Rd("next_int", "Execution", "orderId", "execution.orderId"),  \* 341
    Rd("next_int", "Contract", "conId", "contract.conId"),  \* 342
    Rd("next", "Contract", "symbol", "contract.symbol"),  \* 343
    Rd("next", "Contract", "secType", "contract.secType"),  \* 344
    Rd("next", "Contract", "lastTradeDateOrContractMonth", "contract.lastTradeDateOrContractMonth"),  \* 345
    Rd("next_float", "Contract", "strike", "contract.strike"),  \* 346
    Rd("next", "Contract", "right", "contract.right"),  \* 347
    Rd("next", "Contract", "multiplier", "contract.multiplier"),  \* 348
    Rd("next", "Contract", "exchange", "contract.exchange"),  \* 349
    Rd("next", "Contract", "currency", "contract.currency"),  \* 350
    Rd("next", "Contract", "localSymbol", "contract.localSymbol"),  \* 351
    Rd("next", "Contract", "tradingClass", "contract.tradingClass"),  \* 352
    Rd("next", "Execution", "execId", "execution.execId"),  \* 354
    Rd("next", "local", "", "time_str"),  \* 355
    Rd("next", "Execution", "acctNumber", "execution.acctNumber"),  \* 356
    Rd("next", "Execution", "exchange", "execution.exchange"),  \* 357
    Rd("next", "Execution", "side", "execution.side"),  \* 358
    Rd("next_float", "Execution", "shares", "execution.shares"),  \* 359
    Rd("next_float", "Execution", "price", "execution.price"),  \* 360
    Rd("next_int", "Execution", "permId", "execution.permId"),  \* 361
    Rd("next_int", "Execution", "clientId", "execution.clientId"),  \* 362
    Rd("next_int", "Execution", "liquidation", "execution.liquidation"),  \* 363
    Rd("next_float", "Execution", "cumQty", "execution.cumQty"),  \* 364
    Rd("next_float", "Execution", "avgPrice", "execution.avgPrice"),  \* 365
    Rd("next", "Execution", "orderRef", "execution.orderRef"),  \* 366
    Rd("next", "Execution", "evRule", "execution.evRule"),  \* 367
    Rd("next_float", "Execution", "evMultiplier", "execution.evMultiplier"),  \* 368
    Rd("next", "Execution", "modelCode", "execution.modelCode"),  \* 369
    Rd("next_int", "Execution", "lastLiquidity", "execution.lastLiquidity"),  \* 370
    Ver(">=", 178, <<   \* 372
        Rd("next_bool", "Execution", "pendingPriceRevision", "execution.pendingPriceRevision")   \* 373
    >>),
    If("truthy", "time_str", <<   \* 376
        St("Execution", "time", "execution.time")   \* 377
    >>)
    >>

ContractDetailsMessage_body ==
    <<
    Sk(1),  \* 29
    St("ContractDetails", "contract", "cd.contract"),  \* 32
    Ver("<", 164, <<   \* 34
        Sk(1)   \* 35
    >>),
    Rd("next_int", "local", "", "req_id"),  \* 37
    Rd("next", "Contract", "symbol", "c.symbol"),  \* 38
    Rd("next", "Contract", "secType", "c.secType"),  \* 39
    Rd("next", "local", "", "last_times"),  \* 40
    Rd("next_float", "Contract", "strike", "c.strike"),  \* 41
    Rd("next", "Contract", "right", "c.right"),  \* 42
    Rd("next", "Contract", "exchange", "c.exchange"),  \* 43
    Rd("next", "Contract", "currency", "c.currency"),  \* 44
    Rd("next", "Contract", "localSymbol", "c.localSymbol"),  \* 45
    Rd("next", "ContractDetails", "marketName", "cd.marketName"),  \* 46
    Rd("next", "Contract", "tradingClass", "c.tradingClass"),  \* 47
    Rd("next_int", "Contract", "conId", "c.conId"),  \* 48
    Rd("next_float", "ContractDetails", "minTick", "cd.minTick"),  \* 49
    Ver("<", 164, <<   \* 51
        Sk(1)   \* 52
    >>),
    Rd("next", "Contract", "multiplier", "c.multiplier"),  \* 54
    Rd("next", "ContractDetails", "orderTypes", "cd.orderTypes"),  \* 55
    Rd("next", "ContractDetails", "validExchanges", "cd.validExchanges"),  \* 56
    Rd("next_int", "ContractDetails", "priceMagnifier", "cd.priceMagnifier"),  \* 57
    Rd("next_int", "ContractDetails", "underConId", "cd.underConId"),  \* 58
    Rd("next", "ContractDetails", "longName", "cd.longName"),  \* 59
    Rd("next", "Contract", "primaryExchange", "c.primaryExchange"),  \* 60
    Rd("next", "ContractDetails", "contractMonth", "cd.contractMonth"),  \* 61
    Rd("next", "ContractDetails", "industry", "cd.industry"),  \* 62
    Rd("next", "ContractDetails", "category", "cd.category"),  \* 63
    Rd("next", "ContractDetails", "subcategory", "cd.subcategory"),  \* 64
    Rd("next", "ContractDetails", "timeZoneId", "cd.timeZoneId"),  \* 65
    Rd("next", "ContractDetails", "tradingHours", "cd.tradingHours"),  \* 66
    Rd("next", "ContractDetails", "liquidHours", "cd.liquidHours"),  \* 67
    Rd("next", "ContractDetails", "evRule", "cd.evRule"),  \* 68
    Rd("next_int", "ContractDetails", "evMultiplier", "cd.evMultiplier"),  \* 69
    Rd("next_int", "local", "", "num_sec_ids"),  \* 72
    If("positive", "num_sec_ids", <<   \* 73
        St("ContractDetails", "secIdList", "cd.secIdList"),  \* 74
        For("num_sec_ids", <<   \* 75
            Rd("next", "local", "", "tag"),  \* 76
            Rd("next", "local", "", "value"),  \* 77
            Pos("TagValue"),  \* 78
            App("cd.secIdList")   \* 78
        >>)
    >>),
    Rd("next_int", "ContractDetails", "aggGroup", "cd.aggGroup"),  \* 80
    Rd("next", "ContractDetails", "underSymbol", "cd.underSymbol"),  \* 81
    Rd("next", "ContractDetails", "underSecType", "cd.underSecType"),  \* 82
    Rd("next", "ContractDetails", "marketRuleIds", "cd.marketRuleIds"),  \* 83
    Rd("next", "ContractDetails", "realExpirationDate", "cd.realExpirationDate"),  \* 84
    Rd("next", "ContractDetails", "stockType", "cd.stockType"),  \* 85
    Ver("=", 163, <<   \* 87
        Rd("next_float", "ContractDetails", "suggestedSizeIncrement", "cd.suggestedSizeIncrement")   \* 88
    >>),
    Ver(">=", 164, <<   \* 90
        Rd("next_float", "ContractDetails", "minSize", "cd.minSize"),  \* 91
        Rd("next_float", "ContractDetails", "sizeIncrement", "cd.sizeIncrement"),  \* 92
        Rd("next_float", "ContractDetails", "suggestedSizeIncrement", "cd.suggestedSizeIncrement")   \* 93
    >>),
    If("parts>0", "last_times", <<   \* 98
        St("Contract", "lastTradeDateOrContractMonth", "c.lastTradeDateOrContractMonth")   \* 99
    >>),
    If("parts>1", "last_times", <<   \* 100
        St("ContractDetails", "lastTradeTime", "cd.lastTradeTime")   \* 101
    >>),
    If("parts>2", "last_times", <<   \* 102
        St("ContractDetails", "timeZoneId", "cd.timeZoneId")   \* 103
    >>),
    St("ContractDetails", "longName", "cd.longName")   \* 106
    >>

BondContractDetailsMessage_body ==
    <<
    Sk(1),  \* 127
    St("ContractDetails", "contract", "cd.contract"),  \* 130
    Ver("<", 164, <<   \* 132
        Sk(1)   \* 133
    >>),
    Rd("next_int", "local", "", "req_id"),  \* 135
    Rd("next", "Contract", "symbol", "c.symbol"),  \* 136
    Rd("next", "Contract", "secType", "c.secType"),  \* 137
    Rd("next", "ContractDetails", "cusip", "cd.cusip"),  \* 138
    Rd("next_float", "ContractDetails", "coupon", "cd.coupon"),  \* 139
    Rd("next", "local", "", "last_times"),  \* 140
    Rd("next", "ContractDetails", "issueDate", "cd.issueDate"),  \* 141
    Rd("next", "ContractDetails", "ratings", "cd.ratings"),  \* 142
    Rd("next", "ContractDetails", "bondType", "cd.bondType"),  \* 143
    Rd("next", "ContractDetails", "couponType", "cd.couponType"),  \* 144
    Rd("next_bool", "ContractDetails", "convertible", "cd.convertible"),  \* 145
    Rd("next_bool", "ContractDetails", "callable", "cd.callable"),  \* 146
    Rd("next_bool", "ContractDetails", "putable", "cd.putable"),  \* 147
    Rd("next", "ContractDetails", "descAppend", "cd.descAppend"),  \* 148
    Rd("next", "Contract", "exchange", "c.exchange"),  \* 149
    Rd("next", "Contract", "currency", "c.currency"),  \* 150
    Rd("next", "ContractDetails", "marketName", "cd.marketName"),  \* 151
    Rd("next", "Contract", "tradingClass", "c.tradingClass"),  \* 152
    Rd("next_int", "Contract", "conId", "c.conId"),  \* 153
    Rd("next_float", "ContractDetails", "minTick", "cd.minTick"),  \* 154
    Ver("<", 164, <<   \* 156
        Sk(1)   \* 157
    >>),
    Rd("next", "ContractDetails", "orderTypes", "cd.orderTypes"),  \* 159
    Rd("next", "ContractDetails", "validExchanges", "cd.validExchanges"),  \* 160
    Rd("next", "ContractDetails", "nextOptionDate", "cd.nextOptionDate"),  \* 161
    Rd("next", "ContractDetails", "nextOptionType", "cd.nextOptionType"),  \* 162
    Rd("next_bool", "ContractDetails", "nextOptionPartial", "cd.nextOptionPartial"),  \* 163
    Rd("next", "ContractDetails", "notes", "cd.notes"),  \* 164
    Rd("next", "ContractDetails", "longName", "cd.longName"),  \* 165
    Rd("next", "ContractDetails", "evRule", "cd.evRule"),  \* 166
    Rd("next_int", "ContractDetails", "evMultiplier", "cd.evMultiplier"),  \* 167
    Rd("next_int", "local", "", "num_sec_ids"),  \* 170
    If("positive", "num_sec_ids", <<   \* 171
        St("ContractDetails", "secIdList", "cd.secIdList"),  \* 172
        For("num_sec_ids", <<   \* 173
            Rd("next", "local", "", "tag"),  \* 174
            Rd("next", "local", "", "value"),  \* 175
            Pos("TagValue"),  \* 176
            App("cd.secIdList")   \* 176
        >>)
    >>),
    Rd("next_int", "ContractDetails", "aggGroup", "cd.aggGroup"),  \* 178
    Rd("next", "ContractDetails", "marketRuleIds", "cd.marketRuleIds"),  \* 179
    Ver(">=", 164, <<   \* 181
        Rd("next_float", "ContractDetails", "minSize", "cd.minSize"),  \* 182
        Rd("next_float", "ContractDetails", "sizeIncrement", "cd.sizeIncrement"),  \* 183
        Rd("next_float", "ContractDetails", "suggestedSizeIncrement", "cd.suggestedSizeIncrement")   \* 184
    >>),
    If("parts>0", "last_times", <<   \* 188
        St("ContractDetails", "maturity", "cd.maturity")   \* 189
    >>),
    If("parts>1", "last_times", <<   \* 190
        St("ContractDetails", "lastTradeTime", "cd.lastTradeTime")   \* 191
    >>),
    If("parts>2", "last_times", <<   \* 192
        St("ContractDetails", "timeZoneId", "cd.timeZoneId")   \* 193
    >>)
    >>

ErrorMessage_body ==
    <<
    Sk(2),  \* 35
    Rd("next_int", "local", "", "req_id"),  \* 37
    Rd("next_int", "local", "", "error_code"),  \* 38
    Rd("next", "local", "", "error_string"),  \* 39
    Ver(">=", 166, <<   \* 42
        Rd("next", "local", "", "advanced_order_reject_json")   \* 43
    >>)
    >>

SymbolSamplesMessage_body ==
    <<
    Sk(1),  \* 462
    Rd("next_int", "local", "", "req_id"),  \* 464
    Rd("next_int", "local", "", "num_contracts"),  \* 465
    For("num_contracts", <<   \* 468
        St("ContractDescription", "contract", "cd.contract"),  \* 470
        Rd("next_int", "Contract", "conId", "cd.contract.conId"),  \* 471
        Rd("next", "Contract", "symbol", "cd.contract.symbol"),  \* 472
        Rd("next", "Contract", "secType", "cd.contract.secType"),  \* 473
        Rd("next", "Contract", "primaryExchange", "cd.contract.primaryExchange"),  \* 474
        Rd("next", "Contract", "currency", "cd.contract.currency"),  \* 475
        Rd("next_int", "local", "", "num_derivative_sec_types"),  \* 477
        St("ContractDescription", "derivativeSecTypes", "cd.derivativeSecTypes"),  \* 478
        For("num_derivative_sec_types", <<   \* 479
            Rd("next", "local", "", ""),  \* 480
            App("cd.derivativeSecTypes")   \* 480
        >>),
        Ver(">=", 176, <<   \* 482
            Rd("next", "Contract", "description", "cd.contract.description"),  \* 483
            Rd("next", "Contract", "issuerId", "cd.contract.issuerId")   \* 484
        >>),
        App("contract_descriptions")   \* 486
    >>)
    >>

HistogramDataMessage_body ==
    <<
    Sk(1),  \* 216
    Rd("next_int", "local", "", "req_id"),  \* 218
    Rd("next_int", "local", "", "num_points"),  \* 219
    For("num_points", <<   \* 222
        Rd("next_float", "local", "", "price"),  \* 223
        Rd("next_int", "local", "", "count"),  \* 224
        App("data_points")   \* 225
    >>)
    >>

UpdatePortfolioMessage_body ==
    <<
    Sk(1),  \* 59
    Rd("next_int", "Contract", "conId", "contract.conId"),  \* 62
    Rd("next", "Contract", "symbol", "contract.symbol"),  \* 63
    Rd("next", "Contract", "secType", "contract.secType"),  \* 64
    Rd("next", "Contract", "lastTradeDateOrContractMonth", "contract.lastTradeDateOrContractMonth"),  \* 65
    Rd("next_float", "Contract", "strike", "contract.strike"),  \* 66
    Rd("next", "Contract", "right", "contract.right"),  \* 67
    Rd("next", "Contract", "multiplier", "contract.multiplier"),  \* 68
    Rd("next", "Contract", "primaryExchange", "contract.primaryExchange"),  \* 69
    Rd("next", "Contract", "currency", "contract.currency"),  \* 70
    Rd("next", "Contract", "localSymbol", "contract.localSymbol"),  \* 71
    Rd("next", "Contract", "tradingClass", "contract.tradingClass"),  \* 72
    Rd("next_float", "local", "", "position"),  \* 74
    Rd("next_float", "local", "", "market_price"),  \* 75
    Rd("next_float", "local", "", "market_value"),  \* 76
    Rd("next_float", "local", "", "average_cost"),  \* 77
    Rd("next_float", "local", "", "unrealized_pnl"),  \* 78
    Rd("next_float", "local", "", "realized_pnl"),  \* 79
    Rd("next", "local", "", "account_name")   \* 80
    >>

from_fields_body(cls) ==
    CASE cls = "OpenOrderMessage" -> OpenOrderMessage_body
      [] cls = "CompletedOrderMessage" -> CompletedOrderMessage_body
      [] cls = "ExecDetailsMessage" -> ExecDetailsMessage_body
      [] cls = "ContractDetailsMessage" -> ContractDetailsMessage_body
      [] cls = "BondContractDetailsMessage" -> BondContractDetailsMessage_body
      [] cls = "ErrorMessage" -> ErrorMessage_body
      [] cls = "SymbolSamplesMessage" -> SymbolSamplesMessage_body
      [] cls = "HistogramDataMessage" -> HistogramDataMessage_body
      [] cls = "UpdatePortfolioMessage" -> UpdatePortfolioMessage_body

(***************************************************************************)
(* The record classes the decoders fill.  Contract, ComboLeg,              *)
(* DeltaNeutralContract, ContractDetails and ContractDescription are       *)
(* pydantic models: setting an attribute that is not a declared field      *)
(* raises ValueError, and the constructor takes keyword arguments only     *)
(* (positional arguments raise TypeError).  TagValue is a NamedTuple,      *)
(* Execution a dataclass; Order, OrderState, OrderComboLeg and the objects *)
(* they hold are plain objects: any attribute can be set on them.          *)
(***************************************************************************)
DeclaredFields ==
    [Contract |->
        {"contract_id", "symbol", "security_type", "last_trade_date_or_contract_month",
         "strike", "option_type", "multiplier", "exchange", "primary_exchange", "currency",
         "local_symbol", "trading_class", "include_expired", "security_id_type",
         "security_id", "description", "issuer_id", "combo_legs_description", "combo_legs",
         "delta_neutral_contract"},
     ComboLeg |->
        {"contract_id", "ratio", "action", "exchange", "open_close", "short_sale_slot",
         "designated_location", "exempt_code"},
     DeltaNeutralContract |-> {"contract_id", "delta", "price"},
     ContractDetails |->
        {"contract", "market_name", "min_tick", "order_types", "valid_exchanges",
         "price_magnifier", "underlying_contract_id", "long_name", "contract_month",
         "industry", "category", "subcategory", "time_zone_id", "trading_hours",
         "liquid_hours", "evaluation_rule", "evaluation_multiplier",
         "market_data_size_multiplier", "aggregation_group", "under_symbol",
         "underlying_security_type", "market_rule_ids", "security_id_list",
         "real_expiration_date", "last_trade_time", "stock_type", "min_size",
         "size_increment", "suggested_size_increment", "cusip", "ratings",
         "description_append", "bond_type", "coupon_type", "callable", "putable", "coupon",
         "convertible", "maturity", "issue_date", "next_option_date", "next_option_type",
         "next_option_partial", "notes"},
     ContractDescription |-> {"contract", "derivative_security_types"}]

PydanticClasses == DOMAIN DeclaredFields

\* obj.attr = value raises: obj is a pydantic model without a field named attr
Undeclared(cls, attr) == cls \in PydanticClasses /\ attr \notin DeclaredFields[cls]

\* if server_version rel n
VersionHolds_always(rel, n, sv) == TRUE

VersionHolds(rel, n, sv) ==
    CASE rel = ">=" -> sv >= n
      [] rel = "<" -> sv < n
      [] rel = "=" -> sv = n

\* the number of parts of last_times.split('-')
RECURSIVE Dashes(_)
Dashes(s) == IF s = "" THEN 0 ELSE (IF Char(s, 1) = "-" THEN 1 ELSE 0) + Dashes(SubSeq(s, 2, Len(s)))

Parts(s) == IF s = "" THEN 0 ELSE Dashes(s) + 1

\* the tests of the data gates, on the token read into the variable tested
TestHolds(kind, token) ==
    CASE kind = "truthy" -> token # ""
      [] kind = "bool" -> token = "1" \/ LowerString(token) = "true"
      [] kind = "positive" -> IsInt(token) /\ IntOf(token) > 0
      [] kind = "scale" -> IsFloat(token) /\ FloatOf(token) > 0
      [] kind = "pegbench" -> token \in {"PEG BENCH", "PEGBENCH"}
      [] kind = "parts>0" -> Parts(token) > 0
      [] kind = "parts>1" -> Parts(token) > 1
      [] kind = "parts>2" -> Parts(token) > 2

\* range(n) for the n that next_int() made of the count token
RangeLen(token) == IF token # "" /\ IsInt(token) /\ IntOf(token) > 0 THEN IntOf(token) ELSE 0

(***************************************************************************)
(* Running a body.  The run state holds the cursor, the token read into    *)
(* each variable (env), the tokens consumed so far (reads: the variable,   *)
(* the position and the version gates around the statement), the number of *)
(* iterations each loop completed (iters), the length of each list         *)
(* appended to (lists) and whether a statement raised.  With checked the   *)
(* attribute assignments are those of the record classes; without it every *)
(* assignment succeeds, which leaves the grammar the body reads.           *)
(***************************************************************************)
StartRun(fields) ==
    [it |-> FieldIterator(fields, 0), env |-> EmptyDict, reads |-> << >>,
     iters |-> EmptyDict, lists |-> EmptyDict, raised |-> FALSE]

Consumed(st, key, gates) ==
    Append(st.reads, [key |-> key, pos |-> st.it.index, gates |-> gates])

RECURSIVE Exec(_, _, _, _, _)
RECURSIVE Step(_, _, _, _, _)
RECURSIVE Repeat(_, _, _, _, _, _, _)
Exec(prog, st, sv, checked, gates) ==
    IF Len(prog) = 0 \/ st.raised THEN st
    ELSE Exec(Tail(prog), Step(Head(prog), st, sv, checked, gates), sv, checked, gates)

Step(s, st, sv, checked, gates) ==
    CASE s.k = "read" ->
            LET r == next(st.it, "")
            IN  [st EXCEPT !.it = r.it,
                           !.env = IF s.key = "" THEN @ ELSE DictSet(@, s.key, r.value),
                           !.reads = Consumed(st, s.key, gates),
                           !.raised = checked /\ Undeclared(s.cls, s.attr)]
      [] s.k = "skip" ->
            [st EXCEPT !.it = skip(st.it, s.n), !.reads = Consumed(st, "it.skip", gates)]
      [] s.k = "set" -> [st EXCEPT !.raised = checked /\ Undeclared(s.cls, s.attr)]
      [] s.k = "ctor" -> [st EXCEPT !.raised = checked /\ s.cls \in PydanticClasses]
      [] s.k = "float" ->
            LET token == DictGet(st.env, s.key, "")
            IN  [st EXCEPT !.raised = token # "" /\ ~IsFloat(token)]
      [] s.k = "append" -> [st EXCEPT !.lists = DictSet(@, s.key, DictGet(@, s.key, 0) + 1)]
      [] s.k = "ver" ->
            IF VersionHolds(s.fn, s.n, sv)
            THEN Exec(s.body, st, sv, checked, Append(gates, [rel |-> s.fn, n |-> s.n]))
            ELSE st
      [] s.k = "if" ->
            IF TestHolds(s.fn, DictGet(st.env, s.key, ""))
            THEN Exec(s.body, st, sv, checked, gates)
            ELSE st
      [] s.k = "for" ->
            Repeat(s.body, s.key, RangeLen(DictGet(st.env, s.key, "")), st, sv, checked, gates)

Repeat(body, key, n, st, sv, checked, gates) ==
    IF n = 0 \/ st.raised THEN st
    ELSE LET after == Exec(body, st, sv, checked, gates)
             done == IF after.raised THEN after
                     ELSE [after EXCEPT !.iters = DictSet(@, key, DictGet(@, key, 0) + 1)]
         IN  Repeat(body, key, n - 1, done, sv, checked, gates)

\* cls.from_fields(fields, server_version), and the grammar it reads
Outcome(kind, st) ==
    [kind |-> kind, index |-> st.it.index, env |-> st.env, reads |-> st.reads,
     iters |-> st.iters, lists |-> st.lists]

run_from_fields(cls, fields, sv) ==
    LET st == Exec(from_fields_body(cls), StartRun(fields), sv, TRUE, << >>)
    IN  Outcome(IF st.raised THEN "raise" ELSE "message", st)

grammar_of(cls, fields, sv) ==
    Outcome("message", Exec(from_fields_body(cls), StartRun(fields), sv, FALSE, << >>))

NoRecord == [cls |-> None, fields |-> << >>, sv |-> 0]

NotDecoded == Outcome("not_called", StartRun(<< >>))

call_from_fields(cls, fields, sv) ==
    /\ rec' = [cls |-> cls, fields |-> fields, sv |-> sv]
    /\ out' = run_from_fields(cls, fields, sv)
    /\ UNCHANGED <<dispatcherVars, contractVars, cursorVars, threadVars>>

(***************************************************************************)
(* The token records dispatched, the registrations made and the consumer   *)
(* objects.                                                                *)
(***************************************************************************)
DispatchRecords ==
    {<< >>,                                       \* empty record
     <<"", "789">>,                               \* empty first token
     <<"abc", "1">>,                              \* first token not an integer
     <<"9999", "data1", "data2">>,                \* tag never registered
     <<"2", "789", "5", "2500.5">>,               \* tick size
     <<"2", "789">>,                              \* tick size, cut short
     <<"1", "1", "123", "1", "100.50", "1000">>,  \* price/size tick
     <<"1", "1", "123", "1", "", "1000">>,        \* price/size tick, empty price
     <<"1", "1", "123", "1", "abc", "1000">>,     \* price/size tick, price not a number
     <<"9", "1", "42">>}                          \* next valid id

\* the decorators of models/ and handlers/ for the classes modelled, and the
\* registrations a user can add for keys that are already taken
MessageRegistrations ==
    {<<1, "PriceSizeTickMessage">>, <<2, "TickSizeMessage">>, <<9, "NextValidIdMessage">>,
     <<2, "PriceSizeTickMessage">>}

HandlerRegistrations ==
    {<<"PriceSizeTickMessage", "handle_price_size_tick">>,
     <<"TickSizeMessage", "handle_tick_size">>,
     <<"NextValidIdMessage", "handle_next_valid_id">>,
     <<"TickSizeMessage", "user_handler">>}

\* a consumer with every method (a MagicMock), and one that has tickPrice and
\* tickSize but neither priceSizeTick nor nextValidId
MagicMock == {"priceSizeTick", "tickPrice", "tickSize", "nextValidId"}

Wrappers == {MagicMock, {"tickPrice", "tickSize"}}

ServerVersions == {0}

\* The registries a MessageDispatcher is constructed with: the global registry
\* after the import of models/ and handlers/, and a registry of a user holding the
\* message classes, a handler of the user for TickSizeMessage and no other handler.
GlobalRegistry ==
    [message_classes |-> (1 :> "PriceSizeTickMessage") @@ (2 :> "TickSizeMessage")
                           @@ (9 :> "NextValidIdMessage"),
     handlers |-> [PriceSizeTickMessage |-> "handle_price_size_tick",
                   TickSizeMessage |-> "handle_tick_size",
                   NextValidIdMessage |-> "handle_next_valid_id"]]

UserRegistry ==
    [message_classes |-> GlobalRegistry.message_classes,
     handlers |-> [TickSizeMessage |-> "user_handler"]]

EmptyRegistry == [message_classes |-> EmptyDict, handlers |-> EmptyDict]

\* the tags looked up by a user of the registry
LookupTags == {1, 2, 9, 9999}

\* the token lists a FieldIterator is constructed over
CursorRecords ==
    {<< >>,
     <<"42">>,
     <<"", "text">>,
     <<"3.14", "TRUE", "1">>,
     <<"42", "3.14", "1", "", "text">>}

NextDefaults == {"", "dflt"}
IntDefaults == {0, 99}
FloatDefaults == {0, 150}

\* the arguments the decoders pass: FieldIterator(fields), skip(1), skip(2), with
\* a start index inside the record; no decoder calls peek, whose offset is any int
StartIndexes(fields) == 0..Len(fields)
SkipCounts == {0, 1, 2}
PeekOffsets == {-3, -1, 0, 1, 2}

\* the arguments the signatures admit (start_index: int, count: int, offset: int)
AnyStartIndexes(fields) == (-(Len(fields) + 1))..(Len(fields) + 1)
AnySkipCounts == {-2, -1, 0, 1, 2}

Registries == {GlobalRegistry, UserRegistry}

\* the fixtures of the scalar message classes: the wire records of the classes
\* with tokens that are present, zero or empty
RoundTripFixtures(cls) ==
    CASE cls = "TickSizeMessage" ->
           {<<"2", r, t, z>> : r \in {"789", "0", ""}, t \in {"5", "0", ""},
                               z \in {"2500.5", "100", "0.0", ""}}
      [] cls = "PriceSizeTickMessage" ->
           {<<"1", v, r, t, p, z>> : v \in {"1", "6"}, r \in {"123", "0", ""},
                                     t \in {"1", ""}, p \in {"100.50", "100.5", ""},
                                     z \in {"1000.0", ""}}
      [] cls = "NextValidIdMessage" ->
           {<<"9", "1", "42">>, <<"9", "42">>, <<"9", "0">>, <<"9", "">>}

\* the records the threads dispatch: without a tag, of an unregistered tag, a
\* tick size, and a price tick whose price is not a number
ThreadRecords ==
    {<< >>,
     <<"9999", "data1", "data2">>,
     <<"2", "789", "5", "2500.5">>,
     <<"1", "1", "123", "1", "abc", "1000">>}

\* the decoders run on their own, the protocol versions around their gates
DecoderClasses ==
    {"OpenOrderMessage", "CompletedOrderMessage", "ExecDetailsMessage",
     "ContractDetailsMessage", "BondContractDetailsMessage", "ErrorMessage",
     "SymbolSamplesMessage", "HistogramDataMessage", "UpdatePortfolioMessage"}

DecodeVersions == {0, 158, 159, 160, 161, 162, 163, 164, 165, 166, 169, 170, 175, 176, 177, 178}

\* a record of n tokens that are empty after the tag; the same with one token set
Blank(tag, n) == [i \in 1..n |-> IF i = 1 THEN tag ELSE ""]

With(fields, index, token) == [fields EXCEPT ![index + 1] = token]

\* the index of the token a run read into the variable key, -1 when it read none
ReadIndex(run, key) ==
    LET hits == {i \in 1..Len(run.reads) : run.reads[i].key = key}
    IN  IF hits = {} THEN -1
        ELSE run.reads[CHOOSE i \in hits : \A j \in hits : i <= j].pos

\* order records: all tokens empty; a hedge type "D" with its parameter; one
\* combo leg; a delta-neutral contract (flag "1" or "true", then contract id,
\* delta and price); a pegged-to-benchmark order with its five tokens under
\* either spelling of the order type, and a limit order
OrderRecords(cls, tag, sv) ==
    LET blank == Blank(tag, 170)
        hedge == ReadIndex(grammar_of(cls, blank, sv), "order.hedgeType")
        legs == ReadIndex(grammar_of(cls, blank, sv), "num_legs")
        dnc == ReadIndex(grammar_of(cls, blank, sv), "dnc_present")
        type == ReadIndex(grammar_of(cls, blank, sv), "order.orderType")
        Peg(name) ==
            LET typed == With(blank, type, name)
                ref == ReadIndex(grammar_of(cls, typed, sv), "order.referenceContractId")
            IN  IF ref = -1 THEN typed
                ELSE With(With(With(With(With(typed, ref, "265598"), ref + 1, "1"),
                                         ref + 2, "0.05"), ref + 3, "0.10"), ref + 4, "SMART")
        Dnc(flag) ==
            With(With(With(With(blank, dnc, flag), dnc + 1, "8314"), dnc + 2, "0.5"),
                 dnc + 3, "100.5")
    IN  {blank,
         With(With(With(blank, hedge, "D"), hedge + 1, "0.5"), hedge + 2, "1"),
         With(blank, legs, "1"),
         Dnc("1"), Dnc("true"), Dnc("0"),
         Peg("PEG BENCH"), Peg("PEGBENCH"), Peg("LMT")}

DecodeRecords(cls, sv) ==
    CASE cls = "OpenOrderMessage" -> OrderRecords(cls, "5", sv)
      [] cls = "CompletedOrderMessage" -> OrderRecords(cls, "101", sv)
      [] cls = "ExecDetailsMessage" -> {Blank("11", 35), With(Blank("11", 35), 2, "77")}
      [] cls = "ContractDetailsMessage" -> {Blank("10", 50), With(Blank("10", 50), 3, "AAPL")}
      [] cls = "BondContractDetailsMessage" -> {Blank("18", 50), With(Blank("18", 50), 3, "IBM")}
      [] cls = "ErrorMessage" ->
            {<<"4", "2", "1", "200", "No security definition has been found", "{}">>,
             <<"4", "2", "1", "200", "No security definition has been found">>,
             <<"4", "2", "-1", "2104", "Market data farm connection is OK", "">>}
      [] cls = "SymbolSamplesMessage" ->
            {<<"79", "1", "0">>,
             <<"79", "1", "1", "265598", "AAPL", "STK", "NASDAQ", "USD", "0", "APPLE INC", "">>,
             <<"79", "1", "2", "265598", "AAPL", "STK", "NASDAQ", "USD", "2", "OPT", "FUT",
               "272093", "MSFT", "STK", "NASDAQ", "USD", "0">>}
      [] cls = "HistogramDataMessage" ->
            {<<"89", "1", "0">>,
             <<"89", "1", "2", "10.5", "3", "11.25", "4">>,
             <<"89", "1", "3", "10.5", "3">>,
             <<"89", "1", "-1", "10.5", "3">>}
      [] cls = "UpdatePortfolioMessage" ->
            {<<"7", "265598", "AAPL", "STK", "", "0.0", "", "", "NASDAQ", "USD", "AAPL",
               "NMS", "100", "150.25", "15025.0", "148.5", "175.0", "0.0", "DU12345">>,
             Blank("7", 19)}

(***************************************************************************)
(* Specifications.                                                         *)
(***************************************************************************)
\* MessageDispatcher(wrapper, registry, server_version)
InitDispatcher(registry, w) ==
    /\ message_classes = registry.message_classes
    /\ handlers = registry.handlers
    /\ MESSAGE_ID = DeclaredMessageId
    /\ wrapper = w
    /\ server_version \in ServerVersions
    /\ stats = ZeroStats
    /\ message_counts = EmptyDict
    /\ pre_processors = << >>
    /\ post_processors = << >>
    /\ op = Idle("init", << >>)
    /\ ncalls = 0
    /\ lookup = NoLookup
    /\ twin = FreshStatistics

\* Spec: one MessageDispatcher over a registry that was built at startup
\* no ContractAdapter.parse call, no FieldIterator and no from_fields call yet
ContractIdle == bag = EmptyBag /\ resolved = NotParsed

CursorIdle == cur = NoCursor /\ call = NoCall

DecodeIdle == rec = NoRecord /\ out = NotDecoded

ThreadsIdle == threads = NoThreads

Init ==
    /\ \E registry \in Registries, w \in Wrappers : InitDispatcher(registry, w)
    /\ ContractIdle
    /\ CursorIdle
    /\ DecodeIdle
    /\ ThreadsIdle

Next ==
    \/ \E p \in ProcessorKinds : add_pre_processor(p)
    \/ \E p \in ProcessorKinds : add_post_processor(p)
    \/ \E f \in DispatchRecords, method_raises \in BOOLEAN, elapsed \in Elapsed :
          dispatch(f, method_raises, elapsed)
    \/ reset_statistics

Spec == Init /\ [][Next]_vars

\* SpecRegistry: the decorators building a MessageRegistry, in any order
InitRegistry ==
    /\ InitDispatcher(EmptyRegistry, MagicMock)
    /\ ContractIdle
    /\ CursorIdle
    /\ DecodeIdle
    /\ ThreadsIdle

NextRegistry ==
    \/ \E r \in MessageRegistrations : register_message(r[1], r[2])
    \/ \E r \in HandlerRegistrations : register_handler(r[1], r[2])

SpecRegistry == InitRegistry /\ [][NextRegistry]_vars

\* SpecLookup: a registry that is looked up by its users and by one dispatcher
InitLookup ==
    /\ \E registry \in Registries \cup {EmptyRegistry} : InitDispatcher(registry, MagicMock)
    /\ ContractIdle
    /\ CursorIdle
    /\ DecodeIdle
    /\ ThreadsIdle

NextLookup ==
    \/ \E msg_id \in LookupTags : call_get_message_class(msg_id)
    \/ \E message_cls \in Classes : call_get_handler(message_cls)
    \/ \E f \in DispatchRecords, method_raises \in BOOLEAN, elapsed \in Elapsed :
          dispatch(f, method_raises, elapsed)

SpecLookup == InitLookup /\ [][NextLookup]_vars

\* SpecRoundTrip: every fixture of a scalar message class decoded and encoded
InitRoundTrip ==
    /\ InitDispatcher(GlobalRegistry, MagicMock)
    /\ ContractIdle
    /\ CursorIdle
    /\ DecodeIdle
    /\ ThreadsIdle

NextRoundTrip ==
    \E cls \in Classes, sv \in ServerVersions : \E fields \in RoundTripFixtures(cls) :
        call_to_fields(cls, fields, sv)

SpecRoundTrip == InitRoundTrip /\ [][NextRoundTrip]_vars

\* SpecThreads: two threads that dispatch into one dispatcher over the global
\* registry, with no processor installed
InitThreads ==
    /\ InitDispatcher(GlobalRegistry, MagicMock)
    /\ ContractIdle
    /\ CursorIdle
    /\ DecodeIdle
    /\ ThreadsIdle

NextThreads ==
    \/ \E t \in ThreadIds, f \in ThreadRecords, method_raises \in BOOLEAN, elapsed \in Elapsed :
          thread_dispatch(t, f, method_raises, elapsed)
    \/ \E t \in ThreadIds : thread_load(t)
    \/ \E t \in ThreadIds : thread_store(t)

SpecThreads == InitThreads /\ [][NextThreads]_vars

\* SpecContract: ContractAdapter.parse applied to every bag of Bags
InitContract ==
    /\ InitDispatcher(EmptyRegistry, MagicMock)
    /\ bag \in Bags
    /\ resolved = NotParsed
    /\ CursorIdle
    /\ DecodeIdle
    /\ ThreadsIdle

NextContract == parse

SpecContract == InitContract /\ [][NextContract]_vars

\* SpecCursor: one FieldIterator driven the way the decoders drive it
InitCursor ==
    /\ InitDispatcher(EmptyRegistry, MagicMock)
    /\ ContractIdle
    /\ CursorIdle
    /\ DecodeIdle
    /\ ThreadsIdle

NextCursor ==
    \/ \E fields \in CursorRecords : \E start_index \in StartIndexes(fields) :
          new_FieldIterator(fields, start_index)
    \/ \E default \in NextDefaults : call_next(default)
    \/ \E default \in IntDefaults : call_next_int(default)
    \/ \E default \in FloatDefaults : call_next_float(default)
    \/ \E default \in BOOLEAN : call_next_bool(default)
    \/ \E offset \in PeekOffsets : call_peek(offset)
    \/ \E count \in SkipCounts : call_skip(count)
    \/ call_has_more
    \/ call_remaining
    \/ call_consume_rest

SpecCursor == InitCursor /\ [][NextCursor]_vars

\* SpecCursorAny: one FieldIterator with any start index, skip count and offset
NextCursorAny ==
    \/ \E fields \in CursorRecords : \E start_index \in AnyStartIndexes(fields) :
          new_FieldIterator(fields, start_index)
    \/ \E default \in NextDefaults : call_next(default)
    \/ \E default \in IntDefaults : call_next_int(default)
    \/ \E default \in FloatDefaults : call_next_float(default)
    \/ \E default \in BOOLEAN : call_next_bool(default)
    \/ \E offset \in PeekOffsets : call_peek(offset)
    \/ \E count \in AnySkipCounts : call_skip(count)
    \/ call_has_more
    \/ call_remaining
    \/ call_consume_rest

SpecCursorAny == InitCursor /\ [][NextCursorAny]_vars

\* SpecDecode: from_fields of one decoder called on a record
InitDecode ==
    /\ InitDispatcher(EmptyRegistry, MagicMock)
    /\ ContractIdle
    /\ CursorIdle
    /\ DecodeIdle
    /\ ThreadsIdle

NextDecode ==
    \E cls \in DecoderClasses, sv \in DecodeVersions : \E fields \in DecodeRecords(cls, sv) :
        call_from_fields(cls, fields, sv)

SpecDecode == InitDecode /\ [][NextDecode]_vars

(***************************************************************************)
(* Properties of MessageDispatcher.dispatch (Spec).  In a state whose last *)
(* operation is a dispatch call, op is what that call did; the registry,   *)
(* the consumer object and the installed processors are those of the call. *)
(* In a step, the dispatch call made is DispatchStep and its argument is   *)
(* op'.fields.                                                             *)
(***************************************************************************)
DispatchStep == op'.name = "dispatch" /\ ncalls' = ncalls + 1

\* the record carries a tag: a first token that is a non-empty integer
HasTag(fields) == fields # << >> /\ fields[1] # "" /\ IsInt(fields[1])

\* the record has a registered tag, its decoder returns a message and the type
\* of the message has a registered handler
Routable(fields) ==
    /\ HasTag(fields)
    /\ get_message_class(IntOf(fields[1])) # None
    /\ from_fields(get_message_class(IntOf(fields[1])), fields, server_version).kind = "message"
    /\ get_handler(get_message_class(IntOf(fields[1]))) # None

MessageOf(fields) ==
    from_fields(get_message_class(IntOf(fields[1])), fields, server_version).message

TickSizeFixture == <<"2", "789", "5", "2500.5">>

\* C1: for every record with a registered tag, whose decoder returns a message
\* and whose message type has a registered handler, dispatch invokes that handler
\* exactly once, the handler calls the consumer method with the decoded values
\* (the tick size fixture gives tickSize(789, 5, 2500.5)) and dispatch returns the
\* decoded message.
C1_GoldenPath ==
    (op.name = "dispatch" /\ Routable(op.fields)) =>
        /\ op.handler_calls = <<get_handler(MessageOf(op.fields).cls)>>
        /\ (op.fields = TickSizeFixture /\ op.handler_calls = <<"handle_tick_size">>
                /\ "tickSize" \in wrapper) =>
              op.wrapper_calls =
                  <<Call("tickSize", <<PyInt(789), PyInt(5), PyFloat(250050)>>)>>
        /\ op.raised = "no"
        /\ op.ret = MessageOf(op.fields)

\* C2: failure isolation.  After any sequence of dispatch calls on one
\* dispatcher, a dispatch of a well-formed record of a registered tag decodes it
\* correctly and invokes its handler exactly once.
C2_FailureIsolation ==
    [][(DispatchStep /\ Routable(op'.fields)) =>
          /\ op'.decoded = "message"
          /\ op'.message = MessageOf(op'.fields)
          /\ Len(op'.handler_calls) = 1]_vars

\* C3: dispatch never raises to its caller, whatever the record, the decoder and
\* the handler do.
C3_NeverRaises == op.name = "dispatch" => op.raised = "no"

\* the record is a price/size tick (tag 1) whose price token is empty
EmptyPriceTick(fields) ==
    /\ HasTag(fields)
    /\ IntOf(fields[1]) = 1
    /\ get_message_class(1) = "PriceSizeTickMessage"
    /\ Len(fields) >= 5
    /\ fields[5] = ""

\* C4: suppression.  A price/size tick record whose price token is empty yields
\* no message (from_fields returns the suppressed result), and dispatching it
\* causes no handler invocation and no call on the consumer object.
C4_Suppression ==
    (op.name = "dispatch" /\ EmptyPriceTick(op.fields)) =>
        /\ from_fields("PriceSizeTickMessage", op.fields, server_version) = Suppressed
        /\ op.decoded \in {"not_called", "none"}
        /\ op.message = NoMessage
        /\ op.handler_calls = << >>
        /\ op.fallback_calls = 0
        /\ op.wrapper_calls = << >>

C4_Witness ==
    /\ op.name = "dispatch"
    /\ op.fields = <<"1", "1", "123", "1", "", "1000">>
    /\ op.lookups = 1
    /\ op.decoded = "none"
    /\ op.ret = NoMessage

\* C5: dispatching a record whose numeric tag is not registered increments
\* unknown_messages by exactly one, invokes no handler and no consumer method,
\* returns no message and leaves messages_failed unchanged.
C5_UnknownTag ==
    [][(DispatchStep /\ HasTag(op'.fields)
            /\ get_message_class(IntOf(op'.fields[1])) = None) =>
          /\ stats'.unknown_messages = stats.unknown_messages + 1
          /\ stats'.messages_failed = stats.messages_failed
          /\ op'.handler_calls = << >>
          /\ op'.wrapper_calls = << >>
          /\ op'.raised = "no"
          /\ op'.ret = NoMessage]_vars

\* C6: dispatching an empty record, a record whose first token is empty or a
\* record whose first token is not an integer increments messages_failed by
\* exactly one, performs no decoder lookup, invokes no handler, returns no
\* message and leaves messages_processed, unknown_messages and the per-tag
\* counts unchanged.
C6_NoTag ==
    [][(DispatchStep /\ ~HasTag(op'.fields)) =>
          /\ stats'.messages_failed = stats.messages_failed + 1
          /\ op'.lookups = 0
          /\ op'.handler_calls = << >>
          /\ op'.fallback_calls = 0
          /\ op'.wrapper_calls = << >>
          /\ op'.raised = "no"
          /\ op'.ret = NoMessage
          /\ stats'.messages_processed = stats.messages_processed
          /\ stats'.unknown_messages = stats.unknown_messages
          /\ message_counts' = message_counts]_vars

C6_Witness ==
    /\ op.name = "dispatch"
    /\ op.fields = <<"abc", "1">>
    /\ op.lookups = 0
    /\ stats.messages_failed = 2
    /\ stats.messages_processed = 0
    /\ ncalls = 2

\* C7: when the decoder of a registered tag raises, dispatch increments
\* messages_failed by exactly one, routes no message (no handler, no fallback
\* consumer method, no post-processor) and returns no message.
C7_DecoderRaises ==
    [][(DispatchStep /\ HasTag(op'.fields) /\ op'.decoded # "not_called"
            /\ from_fields(get_message_class(IntOf(op'.fields[1])), op'.fields,
                           server_version) = DecodeError) =>
          /\ stats'.messages_failed = stats.messages_failed + 1
          /\ op'.handler_calls = << >>
          /\ op'.fallback_calls = 0
          /\ op'.wrapper_calls = << >>
          /\ op'.post_calls = 0
          /\ op'.raised = "no"
          /\ op'.ret = NoMessage]_vars

C7_Witness ==
    /\ op.name = "dispatch"
    /\ op.fields = <<"1", "1", "123", "1", "abc", "1000">>
    /\ op.decoded = "raise"
    /\ post_processors # << >>
    /\ stats.messages_failed = 1

\* C8: when the handler registered for the decoded message type raises,
\* dispatch does not propagate that exception and increments messages_failed by
\* exactly one for the record.
C8_HandlerRaises ==
    [][(DispatchStep /\ op'.handler_raised) =>
          /\ op'.raised # "handler"
          /\ op'.post_calls = ProcessorsCalled(post_processors)
          /\ stats'.messages_failed = stats.messages_failed + 1]_vars

C8_Witness ==
    /\ op.name = "dispatch"
    /\ op.fields = TickSizeFixture
    /\ op.handler_calls = <<"handle_tick_size">>
    /\ op.handler_raised
    /\ op.raised = "no"
    /\ stats.messages_failed = 1

(***************************************************************************)
(* Properties of MessageRegistry (SpecRegistry).                           *)
(***************************************************************************)
\* C9: each registry key registers at most once: a registration for a tag or a
\* message type that is already registered never overwrites the existing entry,
\* so the mapping of a key stays the one its first registration installed.
C9_RegisterOnce ==
    [][/\ \A k \in DOMAIN message_classes :
              k \in DOMAIN message_classes' /\ message_classes'[k] = message_classes[k]
       /\ \A c \in DOMAIN handlers :
              c \in DOMAIN handlers' /\ handlers'[c] = handlers[c]]_vars

\* the number of tokens the grammar of a message class reads: the tokens its
\* from_fields skips plus those it takes with next, next_int and next_float
GrammarLength(cls) ==
    CASE cls = "PriceSizeTickMessage" -> 6
      [] cls = "TickSizeMessage" -> 4
      [] cls = "NextValidIdMessage" -> 2

\* the record of a registered tag ends before the grammar of its class does
Truncated(fields) ==
    /\ HasTag(fields)
    /\ get_message_class(IntOf(fields[1])) # None
    /\ Len(fields) < GrammarLength(get_message_class(IntOf(fields[1])))

\* C14: when a record of a registered tag ends before its message grammar is
\* complete, decoding signals a decode error: dispatch counts one failure,
\* returns no message and invokes no handler.
C14_TruncatedRecord ==
    (op.name = "dispatch" /\ op.decoded # "not_called" /\ Truncated(op.fields)) =>
        /\ op.decoded = "raise"
        /\ op.failed = 1
        /\ op.ret = NoMessage
        /\ op.handler_calls = << >>

(***************************************************************************)
(* Properties of the registry lookups (SpecLookup).                        *)
(***************************************************************************)
\* C20: get_message_class for an unregistered tag and get_handler for an
\* unregistered message type return None without raising and without changing
\* the registry; dispatch leaves both registry mappings unchanged as well.
C20_LookupFrame ==
    [][/\ message_classes' = message_classes
       /\ handlers' = handlers
       /\ (lookup' # lookup /\ lookup'.name = "get_message_class"
              /\ lookup'.key.int \notin DOMAIN message_classes) => lookup'.found = None
       /\ (lookup' # lookup /\ lookup'.name = "get_handler"
              /\ lookup'.key.str \notin DOMAIN handlers) => lookup'.found = None]_vars

C20_Witness ==
    /\ lookup.name = "get_handler"
    /\ lookup.key = PyStr("NextValidIdMessage")
    /\ "NextValidIdMessage" \notin DOMAIN handlers
    /\ "TickSizeMessage" \in DOMAIN handlers
    /\ lookup.found = None
    /\ op.name = "dispatch"
    /\ op.fields = <<"9999", "data1", "data2">>
    /\ 9999 \notin DOMAIN message_classes

(***************************************************************************)
(* Properties of ContractAdapter.parse (SpecContract).                     *)
(***************************************************************************)
\* C10: ContractAdapter.parse never raises, and for a bag whose security_type is
\* absent or is not a known security type it returns the generic base Contract
\* built from the bag.
C10_ParseNeverRaises ==
    resolved # NotParsed =>
        /\ resolved # ValidationError
        /\ bag.security_type \notin SecurityTypeValues =>
              resolved = ContractInstance("Contract", bag, None)

(***************************************************************************)
(* Properties of FieldIterator (SpecCursor: the arguments the decoders     *)
(* pass; SpecCursorAny: any start index, skip count and peek offset).  In  *)
(* a state whose last call is named call.name, call.before is the cursor   *)
(* before that call and cur the cursor after it.                           *)
(***************************************************************************)
\* C15: for a FieldIterator constructed over any token list with any start
\* index, after any sequence of next, next_int, next_float, next_bool, peek,
\* skip (with any count) and consume_rest calls, 0 <= index <= length.
C15_CursorInRange == Constructed => (0 <= cur.index /\ cur.index <= cur.length)

\* the token under the cursor before the last call, "" when there is none
TokenBefore ==
    IF 0 <= call.before.index /\ call.before.index < call.before.length
    THEN call.before.fields[call.before.index + 1]
    ELSE ""

\* the boolean tokens of the wire format: "1" / "0", "true" / "false" in any case
IsBoolToken(s) == s \in {"1", "0"} \/ LowerString(s) \in {"true", "false"}

BoolOf(s) == s = "1" \/ LowerString(s) = "true"

\* C16: next_int, next_float and next_bool never raise; they return the
\* caller's default when the token is empty, cannot be parsed as the requested
\* type or the cursor is exhausted, and the parsed value otherwise.
C16_TypedAccessors ==
    /\ call.name \in {"next_int", "next_float", "next_bool"} => ~call.raised
    /\ call.name = "next_int" =>
          call.value = IF IsInt(TokenBefore) THEN PyInt(IntOf(TokenBefore)) ELSE call.arg
    /\ call.name = "next_float" =>
          call.value = IF IsFloat(TokenBefore) THEN PyFloat(FloatOf(TokenBefore))
                       ELSE call.arg
    /\ call.name = "next_bool" =>
          call.value = IF IsBoolToken(TokenBefore) THEN PyBool(BoolOf(TokenBefore))
                       ELSE call.arg

\* C17: next(default) returns the token at the current position and advances by
\* exactly one when tokens remain; exhausted, it returns the default and leaves
\* the position unchanged.  After k calls of next on FieldIterator(fields) with n
\* tokens the position is min(k, n) and remaining() is n - min(k, n).
C17_Next ==
    /\ call.name = "next" =>
          /\ ~call.raised
          /\ cur.fields = call.before.fields /\ cur.length = call.before.length
          /\ IF call.before.index < call.before.length
             THEN /\ call.value = PyStr(call.before.fields[call.before.index + 1])
                  /\ cur.index = call.before.index + 1
             ELSE /\ call.value = call.arg
                  /\ cur.index = call.before.index
    /\ (Constructed /\ call.start = 0 /\ call.nexts = call.calls) =>
          /\ cur.index = Min(call.nexts, Len(cur.fields))
          /\ remaining(cur) = Len(cur.fields) - Min(call.nexts, Len(cur.fields))

C17_Witness ==
    /\ call.name = "next"
    /\ call.start = 0
    /\ call.nexts = 3
    /\ cur.fields = <<"", "text">>
    /\ cur.index = 2
    /\ call.arg = PyStr("dflt")
    /\ call.value = PyStr("dflt")

\* C18: peek(offset), has_more() and remaining() leave the position and the
\* token list unchanged for every offset; peek returns the token at position +
\* offset when that index lies inside the record and no token otherwise.
C18_Peek ==
    /\ call.name \in {"peek", "has_more", "remaining"} => cur = call.before
    /\ call.name = "peek" =>
          /\ ~call.raised
          /\ call.value =
                IF 0 <= cur.index + call.arg.int /\ cur.index + call.arg.int < Len(cur.fields)
                THEN PyStr(cur.fields[cur.index + call.arg.int + 1])
                ELSE PyNone

\* C19: consume_rest() returns exactly the tokens from the current position to
\* the end of the record, in order, and leaves the cursor exhausted; a second
\* consume_rest() returns the empty list.
C19_ConsumeRest ==
    call.name = "consume_rest" =>
        /\ call.value = PyList(SubSeq(call.before.fields, call.before.index + 1,
                                      Len(call.before.fields)))
        /\ cur.fields = call.before.fields
        /\ ~has_more(cur)
        /\ remaining(cur) = 0
        /\ call.prev = "consume_rest" => call.value = PyList(<< >>)

C19_Witness ==
    /\ call.name = "consume_rest"
    /\ call.prev = "skip"
    /\ call.before.index = 2
    /\ call.value = PyList(<<"1", "", "text">>)
    /\ cur.index = 5

(***************************************************************************)
(* Properties of the decoders (SpecDecode).  rec is the record, class and  *)
(* protocol version of the last from_fields call, out what the call did;   *)
(* grammar_of gives the tokens the body of that decoder reads from the     *)
(* record.                                                                 *)
(***************************************************************************)
FromFieldsCalled == out.kind # "not_called"

GrammarOf == grammar_of(rec.cls, rec.fields, rec.sv)

\* C11: in open-order and completed-order decoding the hedge-parameter token is
\* consumed if and only if the hedge-type token read immediately before it is
\* non-empty, and the field after them is read from the position shifted by it.
C11_HedgeGate ==
    (FromFieldsCalled /\ rec.cls \in {"OpenOrderMessage", "CompletedOrderMessage"}) =>
        LET hedge == ReadIndex(GrammarOf, "order.hedgeType")
            hedgeType == rec.fields[hedge + 1]
        IN  hedge # -1 =>
              /\ ReadIndex(out, "order.hedgeType") = hedge
              /\ ReadIndex(out, "order.hedgeParam") = IF hedgeType # "" THEN hedge + 1 ELSE -1
              /\ ReadIndex(out, "order.optOutSmartRouting") =
                    IF hedgeType # "" THEN hedge + 2 ELSE hedge + 1

\* the tokens consumed inside version gates, with the relation and threshold of
\* each gate around them
GatedReads ==
    UNION {{<<out.reads[i].gates[j].rel, out.reads[i].gates[j].n>> :
              j \in 1..Len(out.reads[i].gates)} : i \in 1..Len(out.reads)}

CountedGroups(cls) ==
    CASE cls = "HistogramDataMessage" -> {<<"num_points", "data_points">>}
      [] cls = "SymbolSamplesMessage" -> {<<"num_contracts", "contract_descriptions">>}
      [] cls \in {"OpenOrderMessage", "CompletedOrderMessage"} ->
            {<<"num_legs", "contract.comboLegs">>,
             <<"num_order_legs", "order.orderComboLegs">>}
      [] OTHER -> {}

\* C13: when the count token of a count-prefixed group parses to N, the decoder
\* reads exactly N instances of the group and the resulting list has exactly N
\* entries, for every integer N the count token can carry.
C13_RepeatedGroups ==
    FromFieldsCalled =>
        \A g \in CountedGroups(rec.cls) :
            LET count == DictGet(GrammarOf.env, g[1], "")
            IN  (count # "" /\ IsInt(count)) =>
                  /\ out.kind = "message"
                  /\ DictGet(out.iters, g[1], 0) = IntOf(count)
                  /\ DictGet(out.lists, g[2], 0) = IntOf(count)

(***************************************************************************)
(* Resolution to a variant (SpecContract).                                 *)
(***************************************************************************)
\* the required-field invariants of the variant the discriminant names: an option
\* or futures option has a strike above zero and an option right, a combo has at
\* least one leg, a future names its exchange
RequiredFieldInvariants(b) ==
    /\ b.security_type \in {"OPT", "FOP"} =>
          /\ b.strike # Absent
          /\ IsDecimal(b.strike)
          /\ DecimalOf(b.strike) > 0
          /\ b.option_type \in OptionTypeValues
    /\ b.security_type = "BAG" => b.combo_legs >= 1
    /\ b.security_type = "FUT" => b.exchange # Absent

\* every attribute of the bag has a value its field of the variant accepts
AttributesAccepted(b) ==
    /\ b.strike = Absent \/ IsDecimal(b.strike)
    /\ b.option_type \in OptionTypeValues \cup {Absent, ""}
    /\ b.security_type \in {"STK", "OPT", "FUT", "CASH", "CRYPTO"} =>
          b.exchange \in ExchangeValues \cup {Absent}

C22_InvariantFallback ==
    resolved # NotParsed =>
        /\ (bag.security_type \in UnionTags /\ ~RequiredFieldInvariants(bag)) =>
              resolved.variant = "Contract"
        /\ resolved.variant \in {"Option", "FuturesOption"} =>
              resolved.strike > 0 /\ resolved.option_type \in OptionTypeValues
        /\ resolved.variant = "Bag" => resolved.combo_legs >= 1
        /\ resolved.variant = "Future" => resolved.exchange # None

(***************************************************************************)
(* Statistics and routing of dispatch (Spec).                              *)
(***************************************************************************)
\* the step is a dispatch call whose decoder returned the suppressed result
SuppressedStep ==
    /\ ncalls' = ncalls + 1
    /\ op'.name = "dispatch"
    /\ op'.decoded = "none"

\* the step ran no handler, no fallback method and no post-processor
NothingRan ==
    /\ op'.handler_calls = << >>
    /\ op'.fallback_calls = 0
    /\ op'.wrapper_calls = << >>
    /\ op'.post_calls = 0

\* C23: when the decoder returns the suppressed result, dispatch leaves
\* messages_processed, the per-tag count, messages_failed and unknown_messages
\* unchanged and runs no handler, no fallback method and no post-processor.
C23_SuppressedFrame ==
    [][SuppressedStep =>
          /\ stats'.messages_processed = stats.messages_processed
          /\ message_counts' = message_counts
          /\ stats'.messages_failed = stats.messages_failed
          /\ stats'.unknown_messages = stats.unknown_messages
          /\ NothingRan]_vars

\* C23 amended: when the decoder returns the suppressed result, the record has
\* been counted once in messages_processed and in the count of its tag (the
\* counting precedes the decoding), messages_failed, unknown_messages,
\* validation_errors and the counts of the other tags are unchanged, no handler,
\* no fallback method and no post-processor runs, and dispatch returns None.
C23_SuppressedFrameAmended ==
    [][SuppressedStep =>
          /\ stats'.messages_processed = stats.messages_processed + 1
          /\ DictGet(message_counts', op'.msg_id, 0) =
                DictGet(message_counts, op'.msg_id, 0) + 1
          /\ \A t \in DOMAIN message_counts' \ {op'.msg_id} :
                t \in DOMAIN message_counts /\ message_counts'[t] = message_counts[t]
          /\ stats'.messages_failed = stats.messages_failed
          /\ stats'.unknown_messages = stats.unknown_messages
          /\ stats'.validation_errors = stats.validation_errors
          /\ NothingRan
          /\ op'.ret = NoMessage
          /\ op'.raised = "no"]_vars

\* a suppressed price tick was dispatched by a dispatcher that has a handler for
\* its message type and a post-processor installed
C23_Witness ==
    /\ op.name = "dispatch"
    /\ op.decoded = "none"
    /\ op.counted
    /\ op.post_calls = 0
    /\ Len(post_processors) = 1
    /\ get_handler("PriceSizeTickMessage") # None
    /\ stats.messages_processed >= 1
    /\ stats.messages_failed = 0

\* the method name the convention derives from the name of a message type: the
\* first letter in lower case, the trailing 'Message' removed
ConventionalMethod(message_name) ==
    CASE message_name = "PriceSizeTickMessage" -> "priceSizeTick"
      [] message_name = "TickSizeMessage" -> "tickSize"
      [] message_name = "NextValidIdMessage" -> "nextValidId"

\* the dispatch call decoded a message whose type has no registered handler
FallbackCase ==
    /\ op.name = "dispatch"
    /\ op.decoded = "message"
    /\ get_handler(op.message.cls) = None

\* C24: when the decoded message type has no registered handler, dispatch calls
\* the method named by the convention on the consumer object exactly once if the
\* consumer has it and makes no call if it has not; in both cases no handler
\* runs, the message is returned and no failure is counted.
C24_Fallback ==
    FallbackCase =>
        /\ op.handler_calls = << >>
        /\ op.fallback_calls = 1
        /\ WrapperMethodName(op.message.cls) = ConventionalMethod(op.message.cls)
        /\ IF ConventionalMethod(op.message.cls) \in wrapper
           THEN /\ Len(op.wrapper_calls) = 1
                /\ op.wrapper_calls[1].method = ConventionalMethod(op.message.cls)
           ELSE op.wrapper_calls = << >>
        /\ op.failed = 0
        /\ op.raised = "no"
        /\ op.ret = op.message

\* the argument is the message record and not one of its field values
IsMessageRecord(arg) == "object" \in DOMAIN arg

\* C25: every call a dispatch makes on the consumer object for a decoded record
\* passes field values of the record and never the message record itself, on the
\* registered-handler path and on the fallback-method path alike.
C25_ConstituentValues ==
    (op.name = "dispatch" /\ op.decoded = "message") =>
        \A i \in 1..Len(op.wrapper_calls) :
            \A j \in 1..Len(op.wrapper_calls[i].args) :
                ~IsMessageRecord(op.wrapper_calls[i].args[j])

\* the sum of the per-tag counts
RECURSIVE SumCounts(_)
SumCounts(counts) ==
    IF DOMAIN counts = {} THEN 0
    ELSE LET t == CHOOSE k \in DOMAIN counts : TRUE
         IN  counts[t] + SumCounts([k \in DOMAIN counts \ {t} |-> counts[k]])

\* C26: the statistics count records by their first token.  A dispatcher starts
\* with messages_processed 0 and no per-tag count; every dispatch of a record
\* whose first token is a non-empty integer t adds one to messages_processed and
\* to message_counts[t] (whether or not t is registered) and changes no other
\* count, every dispatch of an empty or non-numeric-tag record changes neither;
\* so after any sequence of dispatch calls both equal the number of such records,
\* and the per-tag counts sum to messages_processed.
C26_Counts ==
    /\ get_statistics.messages_processed = 0 /\ get_statistics.message_counts = EmptyDict
    /\ [](SumCounts(get_statistics.message_counts) = get_statistics.messages_processed)
    /\ [][DispatchStep =>
             IF HasTag(op'.fields)
             THEN LET t == IntOf(op'.fields[1])
                  IN  /\ stats'.messages_processed = stats.messages_processed + 1
                      /\ DictGet(message_counts', t, 0) = DictGet(message_counts, t, 0) + 1
                      /\ DOMAIN message_counts' = DOMAIN message_counts \cup {t}
                      /\ \A k \in DOMAIN message_counts \ {t} :
                            message_counts'[k] = message_counts[k]
             ELSE /\ stats'.messages_processed = stats.messages_processed
                  /\ message_counts' = message_counts]_vars

\* two dispatches since construction, of a record of the unregistered tag 9999
\* and of an empty record: one record processed, counted under 9999
C26_Witness ==
    /\ ncalls = 2
    /\ get_statistics.messages_processed = 1
    /\ get_statistics.message_counts = (9999 :> 1)
    /\ get_statistics.unknown_messages = 1
    /\ get_statistics.messages_failed = 1
    /\ get_statistics.processing_time = 2

\* C30: a dispatch call made while a pre-processor or a post-processor that
\* raises is installed returns to its caller: the exception of the processor
\* does not leave dispatch.
C30_ProcessorIsolation ==
    (/\ op.name = "dispatch"
     /\ ProcessorsRaise(pre_processors) \/ ProcessorsRaise(post_processors)) =>
        op.raised \notin {"pre_processor", "post_processor"}

(***************************************************************************)
(* Statistics under concurrent dispatch (SpecThreads).                     *)
(***************************************************************************)
\* every thread has returned from its dispatch calls
AllReturned == \A t \in ThreadIds : threads[t].pending = << >>

\* the calls the threads have made, one thread after the other
SentRecords == threads[1].sent \o threads[2].sent

\* the counters of a dispatcher after the calls of sent, made one after another
RECURSIVE SequentialStatistics(_, _)
SequentialStatistics(sent, acc) ==
    IF sent = << >> THEN acc
    ELSE SequentialStatistics(Tail(sent),
             [stats |-> CountedStats(acc.stats, Head(sent), 1),
              message_counts |-> CountedTags(acc.message_counts, Head(sent))])

\* C28: when two threads dispatch into one dispatcher, then under every
\* interleaving, once every call has returned, messages_processed,
\* messages_failed, unknown_messages and the per-tag counts equal those of a
\* sequential execution of the same records.
C28_NoLostUpdate ==
    AllReturned =>
        LET seq == SequentialStatistics(SentRecords, FreshStatistics)
        IN  /\ stats.messages_processed = seq.stats.messages_processed
            /\ stats.messages_failed = seq.stats.messages_failed
            /\ stats.unknown_messages = seq.stats.unknown_messages
            /\ message_counts = seq.message_counts

(***************************************************************************)
(* reset_statistics (Spec).                                                *)
(***************************************************************************)
ResetStep == op'.name = "reset_statistics"

\* C27: reset_statistics sets processed, failed, validation errors, unknown and
\* the cumulative processing time to zero and empties the per-tag counts, and
\* leaves the registry, the consumer object, the server version and the installed
\* processors unchanged; and the statistics read from a dispatcher always equal
\* those read from a second dispatcher of the same configuration that was built
\* when the first was last reset and was given the same dispatch calls since.
C27_Reset ==
    /\ [][ResetStep =>
             /\ stats'.messages_processed = 0
             /\ stats'.messages_failed = 0
             /\ stats'.validation_errors = 0
             /\ stats'.unknown_messages = 0
             /\ stats'.processing_time = 0
             /\ DOMAIN stats' = DOMAIN ZeroStats
             /\ message_counts' = EmptyDict
             /\ UNCHANGED <<message_classes, handlers, MESSAGE_ID, wrapper,
                            server_version, pre_processors, post_processors>>]_vars
    /\ [](get_statistics = StatisticsOf(twin.stats, twin.message_counts))

\* a record was dispatched, the statistics were reset, and a tick size record was
\* dispatched: the statistics show the second record only
C27_Witness ==
    /\ ncalls = 2
    /\ op.name = "dispatch"
    /\ op.fields = <<"2", "789", "5", "2500.5">>
    /\ get_statistics.processing_time = 1
    /\ get_statistics.messages_processed = 1
    /\ get_statistics.message_counts = (2 :> 1)
    /\ twin.stats.messages_processed = 1

(***************************************************************************)
(* Round trip of the scalar messages (SpecRoundTrip).                      *)
(***************************************************************************)
\* two tokens agree up to normalization: the same text, the same number, or an
\* empty fixture token against the default the encoder writes for it
SameToken(fixture, encoded) ==
    \/ fixture = encoded
    \/ IsFloat(fixture) /\ IsFloat(encoded) /\ FloatOf(fixture) = FloatOf(encoded)
    \/ fixture = "" /\ encoded \in {"", "0", "0.0"}

\* C29: for every fixture of a scalar message class from which from_fields
\* returns a message, classes whose decoder skips a version token after the tag
\* included, to_fields of the message has as many tokens as the fixture and each
\* token agrees with the token of the fixture up to normalization.
C29_RoundTrip ==
    (rec.cls \in Classes /\ out.kind = "message") =>
        /\ Len(out.encoded) = Len(rec.fields)
        /\ \A i \in 1..Len(rec.fields) : SameToken(rec.fields[i], out.encoded[i])

(***************************************************************************)
(* Failure counting (Spec).                                                *)
(***************************************************************************)
\* C35: in every state of a dispatcher messages_failed <= messages_processed,
\* and the error_rate that get_statistics reports is at most 1.
C35_ErrorRate ==
    /\ get_statistics.messages_failed <= get_statistics.messages_processed
    /\ get_statistics.error_rate.num <= get_statistics.error_rate.den

\* the dispatch call ran a registered handler and the handler raised
HandlerRaisedCase ==
    /\ op.name = "dispatch"
    /\ op.decoded = "message"
    /\ Len(op.handler_calls) = 1
    /\ op.handler_raised

\* C36: when a registered handler raises, the record is counted in
\* messages_failed, and dispatch still runs every post-processor on the decoded
\* message and returns the decoded message.
C36_FailedAndReturned ==
    HandlerRaisedCase =>
        /\ op.failed = 1
        /\ op.post_calls = Len(post_processors)
        /\ op.raised = "no"
        /\ op.ret = op.message
        /\ op.ret # NoMessage

\* the dispatch call took the fallback and the method of the consumer raised
FallbackRaisedCase ==
    /\ FallbackCase
    /\ Len(op.wrapper_calls) = 1
    /\ op.method_raised

\* C37: when no handler is registered and the fallback method of the consumer
\* raises, dispatch swallows the exception, does not count a failure, still runs
\* the post-processors and returns the message.
C37_FallbackSwallowed ==
    FallbackRaisedCase =>
        /\ op.failed = 0
        /\ op.post_calls = Len(post_processors)
        /\ op.raised = "no"
        /\ op.ret = op.message

(***************************************************************************)
(* Data gates and record classes of the decoders (SpecDecode).             *)
(***************************************************************************)
OrderDecoders == {"OpenOrderMessage", "CompletedOrderMessage"}

\* C31: in open-order and completed-order decoding the three delta-neutral
\* tokens (contract id, delta, price) are consumed if and only if the boolean
\* flag read immediately before them is true, and when it is true decoding
\* succeeds: the contract of the message carries the DeltaNeutralContract built
\* from the three tokens.
C31_DeltaNeutralGate ==
    (FromFieldsCalled /\ rec.cls \in OrderDecoders) =>
        LET flag == ReadIndex(GrammarOf, "dnc_present")
            present == TestHolds("bool", rec.fields[flag + 1])
        IN  flag # -1 =>
              /\ ReadIndex(out, "dnc_present") = flag
              /\ ReadIndex(out, "con_id") = IF present THEN flag + 1 ELSE -1
              /\ ReadIndex(out, "delta") = IF present THEN flag + 2 ELSE -1
              /\ ReadIndex(out, "price") = IF present THEN flag + 3 ELSE -1
              /\ present =>
                    /\ out.kind = "message"
                    /\ DictGet(out.env, "con_id", "") = rec.fields[flag + 2]
                    /\ DictGet(out.env, "delta", "") = rec.fields[flag + 3]
                    /\ DictGet(out.env, "price", "") = rec.fields[flag + 4]

\* the five pegged-to-benchmark reads, in the order of the wire
PegBenchKeys ==
    <<"order.referenceContractId", "order.isPeggedChangeAmountDecrease",
      "order.peggedChangeAmount", "order.referenceChangeAmount",
      "order.referenceExchangeId">>

\* C32: in open-order and completed-order decoding the five pegged-to-benchmark
\* tokens are consumed if and only if the order-type token read earlier is
\* 'PEG BENCH' or 'PEGBENCH'; for any other order type none of them is consumed.
C32_PegBenchGate ==
    (FromFieldsCalled /\ rec.cls \in OrderDecoders) =>
        LET type == ReadIndex(GrammarOf, "order.orderType")
            pegged == rec.fields[type + 1] \in {"PEG BENCH", "PEGBENCH"}
            ref == ReadIndex(GrammarOf, PegBenchKeys[1])
        IN  type # -1 =>
              /\ pegged <=> ref # -1
              /\ \A i \in 1..Len(PegBenchKeys) :
                    ReadIndex(out, PegBenchKeys[i]) = IF pegged THEN ref + i - 1 ELSE -1

\* the record is well formed: every token converts, so that the body runs to
\* its end when every assignment is accepted
WellFormed ==
    ~Exec(from_fields_body(rec.cls), StartRun(rec.fields), rec.sv, FALSE, << >>).raised

\* C38: every attribute a decoder assigns on a Contract, ComboLeg,
\* DeltaNeutralContract, ContractDetails or ContractDescription is a declared
\* field of that class, so decoding a well-formed record completes without a
\* decode error.
C38_DeclaredFields ==
    (FromFieldsCalled /\ WellFormed) => out.kind = "message"

\* the versions at which a decoder starts to read further fields
Thresholds(cls) ==
    CASE cls = "ErrorMessage" -> {166}
      [] cls = "ExecDetailsMessage" -> {178}
      [] cls = "SymbolSamplesMessage" -> {176}
      [] cls = "OpenOrderMessage" -> {159, 160, 162, 170}
      [] cls = "CompletedOrderMessage" -> {170}
      [] OTHER -> {}

\* the tokens a run consumed for the fields that version t added
ReadsSince(run, t) ==
    {i \in 1..Len(run.reads) :
        \E j \in 1..Len(run.reads[i].gates) :
            run.reads[i].gates[j] = [rel |-> ">=", n |-> t]}

\* the length of the trailing block of an open order at protocol version sv
TrailingBlock(sv) ==
    IF sv < 159 THEN 0 ELSE IF sv < 160 THEN 1 ELSE IF sv < 162 THEN 2
    ELSE IF sv < 170 THEN 3 ELSE 8

\* C33: for each decoder with a version threshold T, decoding the same record
\* at version T - 1 reads none of the fields that T added and consumes exactly
\* as many tokens fewer as T added fields; the trailing block of an open order
\* is 0, 1, 2, 3 or 8 tokens long for versions below 159, 159, 160-161, 162-169
\* and from 170 on.
C33_VersionBoundary ==
    FromFieldsCalled =>
        /\ \A t \in Thresholds(rec.cls) :
              rec.sv = t =>
                LET below == run_from_fields(rec.cls, rec.fields, t - 1)
                    k == Cardinality(ReadsSince(GrammarOf, t))
                IN  /\ ReadsSince(below, t) = {}
                    /\ Cardinality(ReadsSince(out, t)) = k
                    /\ Len(out.reads) = Len(below.reads) + k
        /\ rec.cls = "OpenOrderMessage" =>
              Cardinality(UNION {ReadsSince(out, t) : t \in Thresholds(rec.cls)})
                  = TrailingBlock(rec.sv)

(***************************************************************************)
(* The tick decoders: TickByTickMessage and HistoricalTicksBidAskMessage.  *)
(* A call yields [kind, message, index]: the message built and the cursor  *)
(* position after the last token consumed.  The fields of a tick-by-tick   *)
(* message that no token was read into stay None.  Timestamps are kept as  *)
(* the integer read; the records carry timestamps datetime can represent.  *)
(***************************************************************************)
DecodedAt(m, it) == [kind |-> "message", message |-> m, index |-> it.index]

\* bool(mask & bit) for bit 1 or 2
MaskBit(mask, bit) == (mask \div bit) % 2 = 1

\* a decoder that reads the last-trade group for every tick type it does not know
TickGroup_last_for_any(tick_type) ==
    CASE tick_type = 3 -> "bid_ask"
      [] tick_type = 4 -> "mid_point"
      [] OTHER -> "last"

\* the branch of the if / elif chain on tick_type
TickGroup(tick_type) ==
    CASE tick_type \in {1, 2} -> "last"
      [] tick_type = 3 -> "bid_ask"
      [] tick_type = 4 -> "mid_point"
      [] OTHER -> "none"

TickByTickMessage_from_fields(fields, sv) ==
    LET it0 == skip(FieldIterator(fields, 0), 1)
        req_id == next_int(it0, 0)
        tick_type == next_int(req_id.it, 0)
        time == next_int(tick_type.it, 0)
        message ==
            [cls |-> "TickByTickMessage", req_id |-> req_id.value,
             tick_type |-> tick_type.value, time |-> time.value,
             price |-> PyNone, size |-> PyNone, exchange |-> PyNone,
             special_conditions |-> PyNone, past_limit |-> PyNone, unreported |-> PyNone,
             bid_price |-> PyNone, ask_price |-> PyNone, bid_size |-> PyNone,
             ask_size |-> PyNone, bid_past_low |-> PyNone, ask_past_high |-> PyNone,
             mid_point |-> PyNone]
        group == TickGroup(tick_type.value)
    IN  CASE group = "last" ->
               LET price == next_float(time.it, 0)
                   size == next_float(price.it, 0)
                   mask == next_int(size.it, 0)
                   exchange == next(mask.it, "")
                   special_conditions == next(exchange.it, "")
               IN  DecodedAt([message EXCEPT
                                 !.price = PyFloat(price.value),
                                 !.size = PyFloat(size.value),
                                 !.past_limit = PyBool(MaskBit(mask.value, 1)),
                                 !.unreported = PyBool(MaskBit(mask.value, 2)),
                                 !.exchange = PyStr(exchange.value),
                                 !.special_conditions = PyStr(special_conditions.value)],
                             special_conditions.it)
          [] group = "bid_ask" ->
               LET bid_price == next_float(time.it, 0)
                   ask_price == next_float(bid_price.it, 0)
                   bid_size == next_float(ask_price.it, 0)
                   ask_size == next_float(bid_size.it, 0)
                   mask == next_int(ask_size.it, 0)
               IN  DecodedAt([message EXCEPT
                                 !.bid_price = PyFloat(bid_price.value),
                                 !.ask_price = PyFloat(ask_price.value),
                                 !.bid_size = PyFloat(bid_size.value),
                                 !.ask_size = PyFloat(ask_size.value),
                                 !.bid_past_low = PyBool(MaskBit(mask.value, 1)),
                                 !.ask_past_high = PyBool(MaskBit(mask.value, 2))],
                             mask.it)
          [] group = "mid_point" ->
               LET mid_point == next_float(time.it, 0)
               IN  DecodedAt([message EXCEPT !.mid_point = PyFloat(mid_point.value)],
                             mid_point.it)
          [] OTHER -> DecodedAt(message, time.it)

\* a historical decoder that reads the mask as the tick-by-tick decoder does
TickAttribBidAsk_of_mask_as_tick_by_tick(mask) ==
    [bidPastLow |-> MaskBit(mask, 1), askPastHigh |-> MaskBit(mask, 2)]

\* TickAttribBidAsk(askPastHigh=bool(mask & 1), bidPastLow=bool(mask & 2))
TickAttribBidAsk_of_mask(mask) ==
    [askPastHigh |-> MaskBit(mask, 1), bidPastLow |-> MaskBit(mask, 2)]

\* the body of for _ in range(num_ticks), n iterations from cursor it
RECURSIVE HistoricalTicksBidAsk_loop(_, _, _)
HistoricalTicksBidAsk_loop(it, n, ticks) ==
    IF n <= 0 THEN [it |-> it, ticks |-> ticks]
    ELSE LET time == next_int(it, 0)
             mask == next_int(time.it, 0)
             price_bid == next_float(mask.it, 0)
             price_ask == next_float(price_bid.it, 0)
             size_bid == next_float(price_ask.it, 0)
             size_ask == next_float(size_bid.it, 0)
             tick == [time |-> time.value,
                      tickAttribBidAsk |-> TickAttribBidAsk_of_mask(mask.value),
                      priceBid |-> price_bid.value, priceAsk |-> price_ask.value,
                      sizeBid |-> size_bid.value, sizeAsk |-> size_ask.value]
         IN  HistoricalTicksBidAsk_loop(size_ask.it, n - 1, Append(ticks, tick))

HistoricalTicksBidAskMessage_from_fields(fields, sv) ==
    LET it0 == skip(FieldIterator(fields, 0), 1)
        req_id == next_int(it0, 0)
        num_ticks == next_int(req_id.it, 0)
        loop == HistoricalTicksBidAsk_loop(num_ticks.it, num_ticks.value, << >>)
        done == next_bool(loop.it, FALSE)
    IN  DecodedAt([cls |-> "HistoricalTicksBidAskMessage", req_id |-> req_id.value,
                   ticks |-> loop.ticks, done |-> done.value],
                  done.it)

tick_from_fields(cls, fields, sv) ==
    CASE cls = "TickByTickMessage" -> TickByTickMessage_from_fields(fields, sv)
      [] cls = "HistoricalTicksBidAskMessage" ->
            HistoricalTicksBidAskMessage_from_fields(fields, sv)

call_tick_from_fields(cls, fields, sv) ==
    /\ rec' = [cls |-> cls, fields |-> fields, sv |-> sv]
    /\ out' = tick_from_fields(cls, fields, sv)
    /\ UNCHANGED <<dispatcherVars, contractVars, cursorVars, threadVars>>

\* the masks of the wire and the tick types, known and unknown
MaskTokens == {"0", "1", "2", "3"}

TickTypeTokens == {"", "0", "1", "2", "3", "4", "5"}

\* a historical bid/ask record of one tick that carries the mask token
HistoricalBidAskRecord(mask) ==
    <<"97", "456", "1", "1234567890", mask, "100.10", "100.20", "1000", "2000", "1">>

\* tick-by-tick records: the mask is the sixth token after the tag for the
\* last-trade group and the eighth for the bid/ask group; records cut short
TickRecords(cls) ==
    CASE cls = "TickByTickMessage" ->
            {<<"99", "456", tick_type, "1234567890", "100.10", "100.20", third, "2000", mask>> :
                 tick_type \in TickTypeTokens, third \in MaskTokens \cup {"1000"},
                 mask \in MaskTokens}
            \cup {<<"99", "456", tick_type, "1234567890">> : tick_type \in TickTypeTokens}
            \cup {<<"99", "456", "3">>}
      [] cls = "HistoricalTicksBidAskMessage" ->
            {HistoricalBidAskRecord(mask) : mask \in MaskTokens}
            \cup {<<"97", "456", "0", "1">>,
                  <<"97", "456", "2", "1234567890", "1", "100.10", "100.20", "1000", "2000",
                    "1234567891", "2", "100.15", "100.25", "500", "600", "0">>}

TickClasses == {"TickByTickMessage", "HistoricalTicksBidAskMessage"}

\* SpecTicks: from_fields of a tick decoder called on a record
InitTicks ==
    /\ InitDispatcher(EmptyRegistry, MagicMock)
    /\ ContractIdle
    /\ CursorIdle
    /\ DecodeIdle
    /\ ThreadsIdle

NextTicks ==
    \E cls \in TickClasses, sv \in ServerVersions : \E fields \in TickRecords(cls) :
        call_tick_from_fields(cls, fields, sv)

SpecTicks == InitTicks /\ [][NextTicks]_vars

(***************************************************************************)
(* Properties of the tick decoders (SpecTicks).                            *)
(***************************************************************************)
LastGroup == {"price", "size", "exchange", "special_conditions", "past_limit", "unreported"}

BidAskGroup ==
    {"bid_price", "ask_price", "bid_size", "ask_size", "bid_past_low", "ask_past_high"}

MidPointGroup == {"mid_point"}

TickByTickDecoded ==
    FromFieldsCalled /\ rec.cls = "TickByTickMessage" /\ out.kind = "message"

\* the fields of the decoded message that are not None
PopulatedFields ==
    {f \in LastGroup \cup BidAskGroup \cup MidPointGroup : out.message[f] # PyNone}

\* C34: in every decoded tick-by-tick message exactly the field group selected
\* by the tick_type of the record is populated: the last-trade group for types 1
\* and 2, the bid/ask group for type 3, the midpoint for type 4; for any other
\* type no group is populated and no token after request id, tick type and time
\* is consumed.
C34_TickGroups ==
    TickByTickDecoded =>
        LET tick_type == out.message.tick_type
        IN  /\ tick_type \in {1, 2} => PopulatedFields = LastGroup
            /\ tick_type = 3 => PopulatedFields = BidAskGroup
            /\ tick_type = 4 => PopulatedFields = MidPointGroup
            /\ tick_type \notin {1, 2, 3, 4} =>
                  /\ PopulatedFields = {}
                  /\ out.index <= 4

C34_Witness ==
    /\ TickByTickDecoded
    /\ Len(rec.fields) = 9
    /\ rec.fields[3] = "5"
    /\ out.message.tick_type = 5
    /\ PopulatedFields = {}
    /\ out.index = 4

\* a decoded tick-by-tick bid/ask message whose record carries the mask token
BidAskDecoded ==
    TickByTickDecoded /\ out.message.tick_type = 3 /\ Len(rec.fields) = 9

\* the attributes the historical bid/ask decoder gives the same mask token
HistoricalAttrib ==
    HistoricalTicksBidAskMessage_from_fields(HistoricalBidAskRecord(rec.fields[9]), rec.sv)
        .message.ticks[1].tickAttribBidAsk

\* C39 as claimed: the tick-by-tick bid/ask decoder and the historical bid/ask
\* tick decoder decode the attribute mask identically: for every mask the
\* bid-past-low flag is the same in both and the ask-past-high flag is the same
\* in both.
C39_SameMask ==
    BidAskDecoded =>
        /\ out.message.bid_past_low = PyBool(HistoricalAttrib.bidPastLow)
        /\ out.message.ask_past_high = PyBool(HistoricalAttrib.askPastHigh)

\* C39 amended: the tick-by-tick decoder takes bid-past-low from bit 0 of the
\* mask and ask-past-high from bit 1, the historical decoder takes ask-past-high
\* from bit 0 and bid-past-low from bit 1: each flag of the one is the other
\* flag of the other, and the two agree exactly when the two bits are equal.
C39_SameMaskAmended ==
    BidAskDecoded =>
        LET mask == IntOf(rec.fields[9])
        IN  /\ out.message.bid_past_low = PyBool(mask % 2 = 1)
            /\ out.message.ask_past_high = PyBool((mask \div 2) % 2 = 1)
            /\ HistoricalAttrib.askPastHigh = (mask % 2 = 1)
            /\ HistoricalAttrib.bidPastLow = ((mask \div 2) % 2 = 1)
            /\ (/\ out.message.bid_past_low = PyBool(HistoricalAttrib.bidPastLow)
                /\ out.message.ask_past_high = PyBool(HistoricalAttrib.askPastHigh))
                  <=> (mask % 2 = (mask \div 2) % 2)

C39_Witness ==
    /\ BidAskDecoded
    /\ rec.fields[9] = "1"
    /\ out.message.bid_past_low = PyBool(TRUE)
    /\ out.message.ask_past_high = PyBool(FALSE)
    /\ HistoricalAttrib = [askPastHigh |-> TRUE, bidPastLow |-> FALSE]

(***************************************************************************)
(* Handlers that make one consumer call per item and one closing call:     *)
(* handle_historical_data and handle_scanner_data.  raises_at is the       *)
(* number of the consumer call that raises (0: none does); a call of a     *)
(* method the consumer does not have raises AttributeError.  An exception  *)
(* leaves the handler at the call that raised.                             *)
(***************************************************************************)
MaxBars == 2    \* bars of a historical-data record, contracts of a scanner message

\* the body of for _ in range(num_bars), n iterations from cursor it
RECURSIVE HistoricalData_loop(_, _, _)
HistoricalData_loop(it, n, bars) ==
    IF n <= 0 THEN [it |-> it, bars |-> bars]
    ELSE LET date == next(it, "")
             open == next_float(date.it, 0)
             high == next_float(open.it, 0)
             low == next_float(high.it, 0)
             close == next_float(low.it, 0)
             volume == next_float(close.it, 0)
             average == next_float(volume.it, 0)
             barCount == next_int(average.it, 0)
             bar == [date |-> date.value, open |-> open.value, high |-> high.value,
                     low |-> low.value, close |-> close.value, volume |-> volume.value,
                     average |-> average.value, barCount |-> barCount.value]
         IN  HistoricalData_loop(barCount.it, n - 1, Append(bars, bar))

HistoricalDataMessage_from_fields(fields, sv) ==
    LET it0 == skip(FieldIterator(fields, 0), 1)
        req_id == next_int(it0, 0)
        start_date_str == next(req_id.it, "")
        end_date_str == next(start_date_str.it, "")
        num_bars == next_int(end_date_str.it, 0)
        loop == HistoricalData_loop(num_bars.it, num_bars.value, << >>)
    IN  DecodedAt([cls |-> "HistoricalDataMessage", req_id |-> req_id.value,
                   start_date_str |-> start_date_str.value,
                   end_date_str |-> end_date_str.value, bars |-> loop.bars],
                  loop.it)

\* for bar in msg.bars: wrapper.historicalData(msg.req_id, bar), from bar i on
RECURSIVE handle_historical_data_loop(_, _, _, _, _)
handle_historical_data_loop(w, msg, i, calls, raises_at) ==
    IF i > Len(msg.bars) THEN [calls |-> calls, raised |-> FALSE]
    ELSE LET c == WrapperCall(w, "historicalData",
                              <<PyInt(msg.req_id), PyObj(msg.bars[i])>>, raises_at = i)
         IN  IF c.raised THEN [calls |-> calls \o c.calls, raised |-> TRUE]
             ELSE handle_historical_data_loop(w, msg, i + 1, calls \o c.calls, raises_at)

\* a handler that makes the closing call in a finally clause
handle_historical_data_end_always(w, msg, raises_at) ==
    LET loop == handle_historical_data_loop(w, msg, 1, << >>, raises_at)
        c == WrapperCall(w, "historicalDataEnd",
                         <<PyInt(msg.req_id), PyStr(msg.start_date_str),
                           PyStr(msg.end_date_str)>>,
                         raises_at = Len(msg.bars) + 1)
    IN  [calls |-> loop.calls \o c.calls, raised |-> loop.raised \/ c.raised]

handle_historical_data(w, msg, raises_at) ==
    LET loop == handle_historical_data_loop(w, msg, 1, << >>, raises_at)
    IN  IF loop.raised THEN loop
        ELSE LET c == WrapperCall(w, "historicalDataEnd",
                                  <<PyInt(msg.req_id), PyStr(msg.start_date_str),
                                    PyStr(msg.end_date_str)>>,
                                  raises_at = Len(msg.bars) + 1)
             IN  [calls |-> loop.calls \o c.calls, raised |-> c.raised]

\* for i, contract_details in enumerate(msg.contracts): wrapper.scannerData(..);
\* msg.ranks[i] and the other lists raise IndexError when they are shorter
RECURSIVE handle_scanner_data_loop(_, _, _, _, _)
handle_scanner_data_loop(w, msg, i, calls, raises_at) ==
    IF i > Len(msg.contracts) THEN [calls |-> calls, raised |-> FALSE]
    ELSE IF \E list \in {msg.ranks, msg.distances, msg.benchmarks, msg.projections,
                          msg.legs_strs} : i > Len(list)
    THEN [calls |-> calls, raised |-> TRUE]
    ELSE LET c == WrapperCall(w, "scannerData",
                              <<PyInt(msg.req_id), msg.ranks[i], PyObj(msg.contracts[i]),
                                msg.distances[i], msg.benchmarks[i], msg.projections[i],
                                msg.legs_strs[i]>>,
                              raises_at = i)
         IN  IF c.raised THEN [calls |-> calls \o c.calls, raised |-> TRUE]
             ELSE handle_scanner_data_loop(w, msg, i + 1, calls \o c.calls, raises_at)

handle_scanner_data(w, msg, raises_at) ==
    LET loop == handle_scanner_data_loop(w, msg, 1, << >>, raises_at)
    IN  IF loop.raised THEN loop
        ELSE LET c == WrapperCall(w, "scannerDataEnd", <<PyInt(msg.req_id)>>,
                                  raises_at = Len(msg.contracts) + 1)
             IN  [calls |-> loop.calls \o c.calls, raised |-> c.raised]

\* what a call handler(wrapper, msg) leaves: the message and the consumer calls
HandlerOutcome(h, msg) ==
    [kind |-> IF h.raised THEN "handler_raised" ELSE "handler_returned",
     message |-> msg, calls |-> h.calls]

\* handle_historical_data(wrapper, msg) for the message decoded from a record
call_handle_historical_data(fields, raises_at) ==
    LET msg == HistoricalDataMessage_from_fields(fields, server_version).message
    IN  /\ rec' = [cls |-> "HistoricalDataMessage", fields |-> fields,
                   sv |-> server_version, raises_at |-> raises_at]
        /\ out' = HandlerOutcome(handle_historical_data(wrapper, msg, raises_at), msg)
        /\ UNCHANGED <<dispatcherVars, contractVars, cursorVars, threadVars>>

\* handle_scanner_data(wrapper, msg)
call_handle_scanner_data(msg, raises_at) ==
    /\ rec' = [cls |-> "ScannerDataMessage", fields |-> << >>, sv |-> server_version,
               raises_at |-> raises_at]
    /\ out' = HandlerOutcome(handle_scanner_data(wrapper, msg, raises_at), msg)
    /\ UNCHANGED <<dispatcherVars, contractVars, cursorVars, threadVars>>

\* the tokens of bar i, and historical-data records of n bars
BarTokens(i) ==
    <<"2024010" \o NatStr(i), "100.0", "101.5", "99.5", "100.5", "1000", "100.25", NatStr(i)>>

RECURSIVE BarsTokens(_)
BarsTokens(n) == IF n = 0 THEN << >> ELSE BarsTokens(n - 1) \o BarTokens(n)

HistoricalRecords ==
    {<<"17", req_id, start, "20240131", NatStr(n)>> \o BarsTokens(n) :
        req_id \in {"1", "456"}, start \in {"20240101", ""}, n \in 0..MaxBars}

\* scanner messages as ScannerDataMessage.from_fields builds them: one entry of
\* every list per contract
ScannerMessages ==
    {[cls |-> "ScannerDataMessage", req_id |-> req_id,
      contracts |-> [i \in 1..n |-> [marketName |-> "NMS", rank |-> i - 1]],
      ranks |-> [i \in 1..n |-> PyInt(i - 1)],
      distances |-> [i \in 1..n |-> PyStr("")],
      benchmarks |-> [i \in 1..n |-> PyStr("")],
      projections |-> [i \in 1..n |-> PyStr("")],
      legs_strs |-> [i \in 1..n |-> PyStr("")]] :
        req_id \in {1, 456}, n \in 0..MaxBars}

\* a consumer with every method, and one without the closing methods
ListWrappers ==
    {{"historicalData", "historicalDataEnd", "scannerData", "scannerDataEnd"},
     {"historicalData", "scannerData"}}

\* SpecHandlers: a list handler called on a message with a consumer
InitHandlers ==
    /\ \E w \in ListWrappers : InitDispatcher(EmptyRegistry, w)
    /\ ContractIdle
    /\ CursorIdle
    /\ DecodeIdle
    /\ ThreadsIdle

NextHandlers ==
    \/ \E fields \in HistoricalRecords, raises_at \in 0..(MaxBars + 1) :
          call_handle_historical_data(fields, raises_at)
    \/ \E msg \in ScannerMessages, raises_at \in 0..(MaxBars + 1) :
          call_handle_scanner_data(msg, raises_at)

SpecHandlers == InitHandlers /\ [][NextHandlers]_vars

(***************************************************************************)
(* Properties of the list handlers (SpecHandlers).                         *)
(***************************************************************************)
HandlerCalled == out.kind \in {"handler_returned", "handler_raised"}

\* the items of the message handled, and the calls the handler is to make for
\* them: one per item in the order of the message, then the closing call
Items == IF rec.cls = "HistoricalDataMessage" THEN out.message.bars ELSE out.message.contracts

ItemMethod == IF rec.cls = "HistoricalDataMessage" THEN "historicalData" ELSE "scannerData"

EndMethod == IF rec.cls = "HistoricalDataMessage" THEN "historicalDataEnd" ELSE "scannerDataEnd"

ItemOf(c) == IF rec.cls = "HistoricalDataMessage" THEN c.args[2].object ELSE c.args[3].object

\* the calls made are the first n calls of the sequence: item 1, .., item N, end
FirstCalls(n) ==
    /\ Len(out.calls) = n
    /\ n <= Len(Items) + 1
    /\ \A i \in 1..n :
          IF i <= Len(Items)
          THEN out.calls[i].method = ItemMethod /\ ItemOf(out.calls[i]) = Items[i]
          ELSE out.calls[i].method = EndMethod

\* the bars of the message are those of the record, in the order of the wire
BarsInWireOrder ==
    rec.cls = "HistoricalDataMessage" =>
        /\ NatStr(Len(Items)) = rec.fields[5]
        /\ \A i \in 1..Len(Items) : Items[i].date = rec.fields[5 + 8 * (i - 1) + 1]

\* C40 as claimed: for a message of N items the handler makes exactly N per-item
\* calls, one per item in the order of the wire, and then the closing call
\* exactly once, also when N = 0.
C40_ListCalls ==
    HandlerCalled => BarsInWireOrder /\ FirstCalls(Len(Items) + 1)

\* C40 amended: the handler makes the per-item calls in the order of the wire
\* and the closing call after the last of them; a consumer call that raises
\* ends the handler, which then has made only the calls up to that one: the
\* calls made are always the first calls of the sequence item 1 .. item N, end,
\* all N + 1 of them when the handler returns, and the closing call is never
\* made unless all N per-item calls returned.
C40_ListCallsAmended ==
    HandlerCalled =>
        /\ BarsInWireOrder
        /\ FirstCalls(Len(out.calls))
        /\ out.kind = "handler_returned" => FirstCalls(Len(Items) + 1)
        /\ (rec.raises_at = 0 /\ EndMethod \in wrapper) => out.kind = "handler_returned"
        /\ (rec.raises_at \in 1..Len(Items)) =>
              out.kind = "handler_raised" /\ FirstCalls(rec.raises_at)

C40_Witness ==
    /\ HandlerCalled
    /\ rec.cls = "HistoricalDataMessage"
    /\ Len(Items) = 2
    /\ rec.raises_at = 1
    /\ out.kind = "handler_raised"
    /\ FirstCalls(1)

====
